---- MODULE Spec2Model ----
(***************************************************************************)
(* Model of the evaluation harness of Theocat321/fyp (src/llm-testing):    *)
(* the termination checker, the conversation orchestrator, the experiment  *)
(* runner, the judge, the heuristic checks and the reconciliation with     *)
(* human ratings, and of the live chat surface (src/server, src/api).      *)
(*                                                                         *)
(* The specifications share the variables:                                 *)
(*   SpecTerm  should_terminate applied to bounded inputs (pure function)  *)
(*   SpecConv  one call of ConversationOrchestrator.run_conversation       *)
(*   Spec      ExperimentRunner.run_experiment driving run_conversation    *)
(*   SpecJudge LLMJudge.evaluate applied to bounded backend behaviour      *)
(*   SpecHeur  HeuristicEvaluator.evaluate applied to bounded transcripts  *)
(*   SpecCompare  _compare_ratings applied to bounded scores and feedback  *)
(*   SpecChat  requests to /api/chat and /api/chat-stream                  *)
(*   SpecConvFair  SpecConv, every call returning or raising               *)
(*   SpecRubric  LLMJudge.evaluate under any configured rubric             *)
(*   SpecStore  the messages table and the human-data pipelines            *)
(***************************************************************************)
EXTENDS Naturals, Integers, Sequences, FiniteSets, TLC

VARIABLES
    max_turns,              \* TerminationChecker.max_turns
    persona,                \* the persona argument of the running call
    scenario,               \* the scenario argument of the running call
    conversation_history,   \* simulator-facing list of {role, content}
    transcript,             \* list of ConversationTurn
    latencies,              \* latencies of the successful send_message calls
    turn_number,            \* run_conversation's loop counter
    termination,            \* TerminationInfo, or NoTermination
    st_result,              \* last value returned by should_terminate
    pc,                     \* position inside run_conversation
    backend_replies,        \* texts the simulator's backend returns in this run
    seed,                   \* the seed argument of the running call
    conv_result,            \* dict returned by run_conversation, or NoResult
    variant,                \* run_experiment: the variant argument
    personas,               \* run_experiment: the loaded personas
    scenarios,              \* run_experiment: the loaded scenarios
    p_idx,                  \* run_experiment: position of the outer loop
    s_idx,                  \* run_experiment: position of the inner loop
    current,                \* run_experiment: pair counter
    r_pc,                   \* position inside run_experiment
    llm_scores,             \* scores returned by llm_judge.evaluate
    conversations,          \* run_experiment: list of ConversationRun
    summary,                \* run_experiment: SummaryStatistics, or NoSummary
    log,                    \* the runner's logger.info / logger.error lines
    rubric,                 \* LLMJudge.rubric: dimension name -> weight
    judge_response,         \* what the judge's backend did on the last call
    heuristic_checks,       \* list returned by HeuristicEvaluator.evaluate
    feedback,               \* _compare_ratings: the feedback record
    comparison,             \* _compare_ratings: the returned dict
    llm_client,             \* SupportAgent._llm_client: configured or None
    sessions,               \* SupportAgent.sessions of the session in use
    chat_response,          \* payload of the last /api/chat response
    stream_events,          \* events yielded by the running chat-stream
    chat_pc,                \* position inside chat_stream.event_gen
    messages_table,         \* rows of the messages table of the store
    human_messages          \* what a human-data pipeline last kept

conv_vars == <<persona, scenario, conversation_history, transcript, latencies,
               turn_number, termination, st_result, pc, seed, conv_result>>

runner_vars == <<variant, personas, scenarios, p_idx, s_idx, current, r_pc, llm_scores,
                 conversations, summary, log>>

judge_vars == <<rubric, judge_response>>

heur_vars == <<heuristic_checks>>

cmp_vars == <<feedback, comparison>>

chat_vars == <<llm_client, sessions, chat_response, stream_events, chat_pc>>

store_vars == <<messages_table, human_messages>>

tool_vars == <<heur_vars, cmp_vars, chat_vars, store_vars>>

vars == <<max_turns, backend_replies, conv_vars, runner_vars, judge_vars,
          tool_vars>>

-----------------------------------------------------------------------------
(* Bounds *)

MaxTurnsCap == 6        \* largest configured max_turns explored
MaxHistory == 3         \* longest history handed to should_terminate in SpecTerm
MaxTurnNumber == 6      \* largest turn_number handed to should_terminate in SpecTerm
MaxPatience == 4        \* largest persona max_patience_turns explored
MaxTurnsExp == 2        \* largest configured max_turns explored under Spec
MaxPairs == 2           \* largest number of pairs started under Spec
MaxIds == 2             \* longest list of persona ids, of scenario ids, under Spec
MaxCheckedTurns == 2    \* longest transcript handed to the heuristics in SpecHeur

-----------------------------------------------------------------------------
(* Python values *)

None == "<None>"

NoTermination == [reason |-> None, turn_number |-> 0, details |-> None]

NoResult == [returned |-> FALSE]

NoSummary == [computed |-> FALSE]

NoScores == [evaluated |-> FALSE]

NoPersona == [id |-> None, name |-> None, max_patience_turns |-> 0,
              seed_utterance |-> None]

-----------------------------------------------------------------------------
(* Inputs: texts the environment can produce *)

\* replies of the simulator's generative backend (turn >= 2)
SimulatorReplies ==
    { "What plans do you have?",
      "That's all, thank you.",
      "I want a SUPERVISOR" }

\* user messages handed to should_terminate in SpecTerm
UserMsgs ==
    SimulatorReplies \cup
    { "Thank you",
      "I still need help",
      "This is useless",
      "That's all. Get me a manager" }

\* replies of the chatbot endpoint
AssistantReplies == { "Great, you're all set. Anything else?" }

\* latencies send_message measures, in ms
Latencies == { 120 }

\* str(e) of the errors send_message raises (client.py:106-128)
TransportErrors == { "Request timed out after 30 seconds" }

SeedUtterances ==
    { "What plans do you have?",
      "Signal keeps dropping on my train. This is ridiculous. Fix it now." }

\* f"[ERROR: {str(e)}]"
ErrorPlaceholder(e) == "[ERROR: " \o e \o "]"

\* every text a message of the model can carry
KnownTexts ==
    UserMsgs \cup AssistantReplies \cup SeedUtterances
        \cup { ErrorPlaceholder(e) : e \in TransportErrors }

-----------------------------------------------------------------------------
(* str.lower() and the substring test `p in s`, on character level *)

UpperChars == "ABCDEFGHIJKLMNOPQRSTUVWXYZ"

LowerChars == "abcdefghijklmnopqrstuvwxyz"

LowerChar(c) ==
    IF \E i \in 1..Len(UpperChars) : SubSeq(UpperChars, i, i) = c
    THEN LET i == CHOOSE j \in 1..Len(UpperChars) : SubSeq(UpperChars, j, j) = c
         IN  SubSeq(LowerChars, i, i)
    ELSE c

RECURSIVE LowerOf(_)
LowerOf(s) ==
    IF Len(s) = 0 THEN ""
    ELSE IF Len(s) = 1 THEN LowerChar(s)
         ELSE LowerOf(SubSeq(s, 1, Len(s) \div 2))
                 \o LowerOf(SubSeq(s, Len(s) \div 2 + 1, Len(s)))

\* LowerOf of the known texts, computed once
LowerTable == [s \in KnownTexts |-> LowerOf(s)]

\* str.lower()
Lower(s) == IF s \in KnownTexts THEN LowerTable[s] ELSE LowerOf(s)

\* Python `p in s` for strings
Contains(p, s) ==
    \E i \in 1..(Len(s) + 1 - Len(p)) : SubSeq(s, i, i + Len(p) - 1) = p

\* any(indicator in msg for indicator in indicators)
AnyOf(indicators, msg) ==
    \E k \in 1..Len(indicators) : Contains(indicators[k], msg)

-----------------------------------------------------------------------------
(* Phrase lists of TerminationChecker *)

satisfaction_indicators ==
    << "thank you", "thanks so much", "that helps",
       "perfect", "great", "excellent", "got it",
       "understand now", "makes sense", "that's all",
       "all set", "that's everything", "appreciate it",
       "that's what i needed", "that clarifies" >>

closing_indicators ==
    << "that's all", "that's everything", "all set",
       "that's what i needed", "that clarifies" >>

escalation_phrases ==
    << "speak to a person", "human agent", "real person",
       "supervisor", "manager", "escalate", "someone else",
       "not helping", "this isn't working", "tired of this" >>

repetition_indicators ==
    << "i already asked", "i said", "like i said", "as i mentioned",
       "i told you", "i need", "still", "again" >>

frustration_words ==
    << "ridiculous", "useless", "waste", "pathetic",
       "terrible", "awful", "horrible", "worst" >>

PhraseLists ==
    { satisfaction_indicators, closing_indicators, escalation_phrases,
      repetition_indicators, frustration_words }

LoweredTexts == { LowerTable[s] : s \in KnownTexts }

\* AnyOf of the phrase lists on the known texts, computed once
MatchTable == [l \in PhraseLists |-> [m \in LoweredTexts |-> AnyOf(l, m)]]

\* any(indicator in msg for indicator in indicators)
AnyIn(indicators, msg) ==
    IF indicators \in PhraseLists /\ msg \in LoweredTexts
    THEN MatchTable[indicators][msg]
    ELSE AnyOf(indicators, msg)

-----------------------------------------------------------------------------
(* TerminationChecker *)

\* the reversed scan of should_terminate: lowercased content of the most
\* recent message of the role, None when the history holds none
RECURSIVE LastMsgOf(_, _)
LastMsgOf(role, history) ==
    IF Len(history) = 0 THEN None
    ELSE IF history[Len(history)].role = role
         THEN Lower(history[Len(history)].content)
         ELSE LastMsgOf(role, SubSeq(history, 1, Len(history) - 1))

\* Python truthiness of an Optional[str]
Truthy(s) == s # None /\ s # ""

\* [msg["content"].lower() for msg in history if msg["role"] == "user"]
RECURSIVE UserMessages(_)
UserMessages(history) ==
    IF Len(history) = 0 THEN << >>
    ELSE LET rest == UserMessages(SubSeq(history, 1, Len(history) - 1))
             msg == history[Len(history)]
         IN  IF msg.role = "user" THEN Append(rest, Lower(msg.content)) ELSE rest

CheckStalemate(history) ==
    LET user_messages == UserMessages(history)
        n == Len(user_messages)
        last_three == SubSeq(user_messages, n - 2, n)
        repetition_count ==
            Cardinality({k \in 1..3 : AnyIn(repetition_indicators, last_three[k])})
    IN  IF n < 3 THEN [is_stalemate |-> FALSE, reason |-> None]
        ELSE IF repetition_count >= 2
        THEN [is_stalemate |-> TRUE,
              reason |-> "User repeatedly asking similar questions"]
        ELSE IF AnyIn(frustration_words, last_three[3])
        THEN [is_stalemate |-> TRUE, reason |-> "User showing strong frustration"]
        ELSE [is_stalemate |-> FALSE, reason |-> None]

Continue == [should_end |-> FALSE, reason |-> None, details |-> None]

Terminate(reason, details) ==
    [should_end |-> TRUE, reason |-> reason, details |-> details]

\* variant: the closing branch never taken, only the thanks branch is left
ClosingDetected_Late(last_user_msg) == FALSE

\* Check 2, first branch: a closing phrase in the last user message
ClosingDetected(last_user_msg) ==
    /\ Truthy(last_user_msg)
    /\ AnyIn(satisfaction_indicators, last_user_msg)
    /\ AnyIn(closing_indicators, last_user_msg)

\* Check 2, second branch: thanks after at least three turns
ThanksDetected(last_user_msg, t) ==
    /\ Truthy(last_user_msg)
    /\ AnyIn(satisfaction_indicators, last_user_msg)
    /\ t >= 3

\* Check 3
EscalationRequested(last_user_msg) ==
    /\ Truthy(last_user_msg)
    /\ AnyIn(escalation_phrases, last_user_msg)

\* Check 4
StalemateDetected(history, t) ==
    /\ t >= 4
    /\ CheckStalemate(history).is_stalemate

\* variant: patience compared with >= instead of >
PatienceExceeded_AtLimit(p, t) == t >= p.max_patience_turns

\* Check 5
PatienceExceeded(p, t) == t > p.max_patience_turns

\* variant: the cap compared with > instead of >=
ShouldTerminate_StrictCap(self_max_turns, p, history, t) ==
    LET last_user_msg == LastMsgOf("user", history)
    IN  IF t > self_max_turns
        THEN Terminate("max_turns",
                       "Reached maximum of " \o ToString(self_max_turns) \o " turns")
        ELSE IF t < 2 THEN Continue
        ELSE IF ClosingDetected(last_user_msg)
        THEN Terminate("satisfaction", "User expressed satisfaction and closure")
        ELSE IF ThanksDetected(last_user_msg, t)
        THEN Terminate("satisfaction",
                       "User expressed thanks after productive exchange")
        ELSE IF EscalationRequested(last_user_msg)
        THEN Terminate("escalation", "User requested to speak with human agent")
        ELSE IF StalemateDetected(history, t)
        THEN Terminate("stalemate", CheckStalemate(history).reason)
        ELSE IF PatienceExceeded(p, t)
        THEN Terminate("patience_exceeded",
                       "Exceeded " \o p.name \o "'s patience limit")
        ELSE Continue

\* variant: the escalation check placed before the satisfaction check
ShouldTerminate_EscalationFirst(self_max_turns, p, history, t) ==
    LET last_user_msg == LastMsgOf("user", history)
    IN  IF t >= self_max_turns
        THEN Terminate("max_turns",
                       "Reached maximum of " \o ToString(self_max_turns) \o " turns")
        ELSE IF t < 2 THEN Continue
        ELSE IF EscalationRequested(last_user_msg)
        THEN Terminate("escalation", "User requested to speak with human agent")
        ELSE IF ClosingDetected(last_user_msg)
        THEN Terminate("satisfaction", "User expressed satisfaction and closure")
        ELSE IF ThanksDetected(last_user_msg, t)
        THEN Terminate("satisfaction",
                       "User expressed thanks after productive exchange")
        ELSE IF StalemateDetected(history, t)
        THEN Terminate("stalemate", CheckStalemate(history).reason)
        ELSE IF PatienceExceeded(p, t)
        THEN Terminate("patience_exceeded",
                       "Exceeded " \o p.name \o "'s patience limit")
        ELSE Continue

ShouldTerminate(self_max_turns, p, history, t) ==
    LET last_user_msg == LastMsgOf("user", history)
    IN  IF t >= self_max_turns
        THEN Terminate("max_turns",
                       "Reached maximum of " \o ToString(self_max_turns) \o " turns")
        ELSE IF t < 2 THEN Continue
        ELSE IF ClosingDetected(last_user_msg)
        THEN Terminate("satisfaction", "User expressed satisfaction and closure")
        ELSE IF ThanksDetected(last_user_msg, t)
        THEN Terminate("satisfaction",
                       "User expressed thanks after productive exchange")
        ELSE IF EscalationRequested(last_user_msg)
        THEN Terminate("escalation", "User requested to speak with human agent")
        ELSE IF StalemateDetected(history, t)
        THEN Terminate("stalemate", CheckStalemate(history).reason)
        ELSE IF PatienceExceeded(p, t)
        THEN Terminate("patience_exceeded",
                       "Exceeded " \o p.name \o "'s patience limit")
        ELSE Continue

-----------------------------------------------------------------------------
(* LLMJudge (src/evaluator/llm_judge.py) *)

\* floats are fixed-point numbers: Unit stands for 1.0
Unit == 10000

Half == Unit \div 2

DimNames == <<"task_success", "clarity", "empathy", "policy_compliance">>

\* the dimension strings _parse_scores hands to _extract_score
DimLabels == <<"TASK_SUCCESS", "CLARITY", "EMPATHY", "POLICY_COMPLIANCE">>

\* LLMJudge._default_rubric, as the name -> weight dict of _parse_scores
default_rubric ==
    [task_success |-> 5000, clarity |-> 2000, empathy |-> 2000,
     policy_compliance |-> 1000]

\* a rubric whose weights sum to 1.5
heavy_rubric ==
    [task_success |-> 8000, clarity |-> 4000, empathy |-> 2000,
     policy_compliance |-> 1000]

\* a rubric that omits empathy and policy_compliance
partial_rubric == [task_success |-> 6000, clarity |-> 4000]

\* rubrics a configuration file may supply, the weights summing to 1
Rubrics ==
    { default_rubric,
      [task_success |-> 4000, clarity |-> 3000, empathy |-> 2000,
       policy_compliance |-> 1000] }

\* rubrics a configuration file may supply: settings._load_rubric checks
\* neither the sum of the weights nor the names of the dimensions
AnyRubrics == Rubrics \cup { heavy_rubric, partial_rubric }

Digits == <<"0", "1", "2", "3", "4", "5", "6", "7", "8", "9">>

IsDigit(c) == \E d \in 1..10 : Digits[d] = c

DigitVal(c) == (CHOOSE d \in 1..10 : Digits[d] = c) - 1

IsSpace(c) == c \in { " ", "\n", "\t", "\r" }

CharAt(s, i) == SubSeq(s, i, i)

\* length of the longest run of whitespace of s that starts at position i
RECURSIVE SpaceRun(_, _)
SpaceRun(s, i) ==
    IF i <= Len(s) /\ IsSpace(CharAt(s, i)) THEN 1 + SpaceRun(s, i + 1) ELSE 0

\* length of the longest run of digits of s that starts at position i
RECURSIVE DigitRun(_, _)
DigitRun(s, i) ==
    IF i <= Len(s) /\ IsDigit(CharAt(s, i)) THEN 1 + DigitRun(s, i + 1) ELSE 0

RECURSIVE Pow10(_)
Pow10(n) == IF n = 0 THEN 1 ELSE 10 * Pow10(n - 1)

\* int() of a string of digits, 0 for the empty string
RECURSIVE IntOf(_)
IntOf(ds) ==
    IF Len(ds) = 0 THEN 0
    ELSE 10 * IntOf(SubSeq(ds, 1, Len(ds) - 1)) + DigitVal(CharAt(ds, Len(ds)))

\* float() of the text "<whole>.<frac>" (either part may be empty)
FloatOf(whole, frac) ==
    IntOf(whole) * Unit + (IntOf(frac) * Unit) \div Pow10(Len(frac))

NoMatch == [matched |-> FALSE, value |-> 0]

\* the group ([0-9]*\.?[0-9]+) tried at position j
NumberAt(s, j) ==
    LET d1 == DigitRun(s, j)
        dot == j + d1 <= Len(s) /\ CharAt(s, j + d1) = "."
        d2 == IF dot THEN DigitRun(s, j + d1 + 1) ELSE 0
    IN  IF d2 > 0
        THEN [matched |-> TRUE,
              value |-> FloatOf(SubSeq(s, j, j + d1 - 1),
                                SubSeq(s, j + d1 + 1, j + d1 + d2))]
        ELSE IF d1 > 0
             THEN [matched |-> TRUE,
                   value |-> FloatOf(SubSeq(s, j, j + d1 - 1), "")]
             ELSE NoMatch

\* the pattern  dimension:\s*([0-9]*\.?[0-9]+)  tried at position i of s;
\* pat is the lower-cased "dimension:" (re.IGNORECASE)
PatternAt(pat, s, i) ==
    LET n == Len(pat)
    IN  IF /\ i + n - 1 <= Len(s)
           /\ LowerChar(CharAt(s, i)) = CharAt(pat, 1)
           /\ LowerOf(SubSeq(s, i, i + n - 1)) = pat
        THEN NumberAt(s, i + n + SpaceRun(s, i + n))
        ELSE NoMatch

\* re.search(pattern, text, re.IGNORECASE): the match at the leftmost
\* position that has one
ReSearch(dimension, s) ==
    LET pat == LowerOf(dimension \o ":")
        hits == { i \in 1..Len(s) : PatternAt(pat, s, i).matched }
    IN  IF hits = {} THEN NoMatch
        ELSE PatternAt(pat, s, CHOOSE i \in hits : \A k \in hits : i <= k)

Min(a, b) == IF a <= b THEN a ELSE b

Max(a, b) == IF a >= b THEN a ELSE b

\* variant: the matched number is returned as it was written
Clamp_Off(score) == score

\* max(0.0, min(1.0, score))
Clamp(score) == Max(0, Min(Unit, score))

\* the score of a dimension that has no match
MissingScore == Half

\* LLMJudge._extract_score
ExtractScore(text, dimension) ==
    LET match == ReSearch(dimension, text)
    IN  IF match.matched THEN Clamp(match.value) ELSE MissingScore

\* EvaluationScores
EvaluationScores(ts, cl, em, pol, overall, rationale) ==
    [evaluated |-> TRUE, task_success |-> ts, clarity |-> cl, empathy |-> em,
     policy_compliance |-> pol, overall_weighted |-> overall,
     rationale |-> rationale]

\* variant: the overall score is the unweighted mean of the dimensions
WeightedOverall_Mean(weights, ts, cl, em, pol) == (ts + cl + em + pol) \div 4

\* dict.get(name, default)
WeightsGet(weights, name, default) ==
    IF name \in DOMAIN weights THEN weights[name] ELSE default

\* the weighted overall score of _parse_scores
WeightedOverall(weights, ts, cl, em, pol) ==
    (ts * WeightsGet(weights, "task_success", 5000)) \div Unit
    + (cl * WeightsGet(weights, "clarity", 2000)) \div Unit
    + (em * WeightsGet(weights, "empathy", 2000)) \div Unit
    + (pol * WeightsGet(weights, "policy_compliance", 1000)) \div Unit

\* Field(..., ge=0.0, le=1.0)
InBounds(x) == 0 <= x /\ x <= Unit

\* variant: EvaluationScores accepts any number
Validates_Off(scores) == TRUE

\* the bounds EvaluationScores checks when it is constructed
Validates(scores) ==
    /\ InBounds(scores.task_success)
    /\ InBounds(scores.clarity)
    /\ InBounds(scores.empathy)
    /\ InBounds(scores.policy_compliance)
    /\ InBounds(scores.overall_weighted)

\* first line of the ValidationError EvaluationScores raises
ValidationError == "1 validation error for EvaluationScores"

\* LLMJudge._parse_scores up to the construction of EvaluationScores: the
\* values handed to it
ParseScores(weights, evaluation_text) ==
    LET task_success == ExtractScore(evaluation_text, "TASK_SUCCESS")
        clarity == ExtractScore(evaluation_text, "CLARITY")
        empathy == ExtractScore(evaluation_text, "EMPATHY")
        policy_compliance == ExtractScore(evaluation_text, "POLICY_COMPLIANCE")
    IN  EvaluationScores(task_success, clarity, empathy, policy_compliance,
                         WeightedOverall(weights, task_success, clarity,
                                         empathy, policy_compliance),
                         evaluation_text)

\* variant: a backend failure yields neutral scores
ErrorScores_Neutral(e) ==
    EvaluationScores(Half, Half, Half, Half, Half,
                     "Error during evaluation: " \o e)

\* the except branch of evaluate
ErrorScores(e) ==
    EvaluationScores(0, 0, 0, 0, 0, "Error during evaluation: " \o e)

\* what client.chat.completions.create and the read of
\* response.choices[0].message.content do
Completion(text) == [kind |-> "completion", text |-> text]

BackendRaises(e) == [kind |-> "raises", text |-> e]

NoResponse == [kind |-> "none", text |-> ""]

\* exceptions of the backend call and of reading a malformed response
JudgeErrors ==
    { "Request timed out.",
      "Error code: 401 - Incorrect API key provided",
      "list index out of range",
      "expected string or bytes-like object, got 'NoneType'" }

\* LLMJudge.evaluate, given what the backend does
JudgeEvaluate(weights, response) ==
    IF response.kind = "completion"
    THEN LET scores == ParseScores(weights, response.text)
         IN  IF Validates(scores) THEN scores
             ELSE ErrorScores(ValidationError)
    ELSE ErrorScores(response.text)

\* completions of the judge's backend: for each dimension one way of writing
\* (or leaving out) its line
LineKinds == { "score", "above_one", "bracketed", "absent" }

\* the text written after "NAME:" on the line of dimension d
LineValue(d, kind) ==
    CASE kind = "score" -> <<" 0.8", " 0.6", " 1.0", " 0.5">>[d]
      [] kind = "above_one" -> " 1.5"
      [] kind = "bracketed" -> " [0.8]"

LineOf(d, kind) ==
    IF kind = "absent" THEN ""
    ELSE DimLabels[d] \o ":" \o LineValue(d, kind) \o "\n"

Trailers == { "", "OVERALL_WEIGHTED: 0.2\n" }

LineChoices == [1..4 -> LineKinds]

CompletionText(f, trailer) ==
    LineOf(1, f[1]) \o LineOf(2, f[2]) \o LineOf(3, f[3]) \o LineOf(4, f[4])
    \o trailer

\* the completion that gives every dimension as the prompt asks
ExampleCompletion == CompletionText([d \in 1..4 |-> "score"], "")

\* completions written in other ways
OtherCompletions ==
    { "I cannot evaluate this conversation.",
      "task_success: 7\nClarity:\n1.\nEMPATHY: -0.3\nPOLICY_COMPLIANCE:\t.25" }

JudgeCompletions ==
    { CompletionText(f, trailer) : f \in LineChoices, trailer \in Trailers }
        \cup OtherCompletions

JudgeIdle ==
    /\ rubric = default_rubric
    /\ judge_response = NoResponse

NoChecks == << >>

NoComparison == [compared |-> FALSE]

NoFeedback == [given |-> FALSE]

NoChatResponse == [sent |-> FALSE]

HeurIdle == heuristic_checks = NoChecks

CmpIdle ==
    /\ feedback = NoFeedback
    /\ comparison = NoComparison

ChatIdle ==
    /\ llm_client = None
    /\ sessions = << >>
    /\ chat_response = NoChatResponse
    /\ stream_events = << >>
    /\ chat_pc = "idle"

NoFetch == [pipeline |-> None, rows |-> << >>]

StoreIdle ==
    /\ messages_table = << >>
    /\ human_messages = NoFetch

ToolsIdle == HeurIdle /\ CmpIdle /\ ChatIdle /\ StoreIdle

-----------------------------------------------------------------------------
(* HeuristicEvaluator (src/evaluator/heuristics.py) *)

VALID_PLANS == { "8", "15", "25", "32", "42", "55", "70", "85" }

HeuristicCheckResult(check_name, passed, details, severity) ==
    [check_name |-> check_name, passed |-> passed, details |-> details,
     severity |-> severity]

\* s[i..] starts with the lower-case text p, ignoring case
StartsWithAt(p, s, i) ==
    /\ i + Len(p) - 1 <= Len(s)
    /\ LowerChar(CharAt(s, i)) = CharAt(p, 1)
    /\ LowerOf(SubSeq(s, i, i + Len(p) - 1)) = p

\* length of the first alternative of alts that s[i..] starts with, 0 if none
RECURSIVE AltAt(_, _, _)
AltAt(alts, s, i) ==
    IF Len(alts) = 0 THEN 0
    ELSE IF StartsWithAt(Head(alts), s, i) THEN Len(Head(alts))
         ELSE AltAt(Tail(alts), s, i)

\* the alternatives after the amount in price_pattern
PriceSuffixes == <<"per month", "monthly", "/month", "/mo">>

\* price_pattern tried at position i of s: whether it matches, the captured
\* amount (group(1) or group(2)) and the position after the match
PriceAt(s, i) ==
    LET c == CharAt(s, i)
    IN  IF c = "£" /\ DigitRun(s, i + 1) > 0
        THEN [matched |-> TRUE,
              price |-> SubSeq(s, i + 1, i + DigitRun(s, i + 1)),
              next |-> i + 1 + DigitRun(s, i + 1)]
        ELSE IF IsDigit(c)
             THEN LET d == DigitRun(s, i)
                      j == i + d + SpaceRun(s, i + d)
                      n == AltAt(PriceSuffixes, s, j)
                  IN  IF n > 0
                      THEN [matched |-> TRUE,
                            price |-> SubSeq(s, i, i + d - 1),
                            next |-> j + n]
                      ELSE [matched |-> FALSE, price |-> "", next |-> i + 1]
             ELSE [matched |-> FALSE, price |-> "", next |-> i + 1]

\* re.finditer(price_pattern, s, re.IGNORECASE) from position i on: the
\* captured amounts of the matches, found left to right without overlap
RECURSIVE PricesFrom(_, _)
PricesFrom(s, i) ==
    LET hits == { k \in i..Len(s) : PriceAt(s, k).matched }
    IN  IF hits = {} THEN {}
        ELSE LET m == PriceAt(s, CHOOSE k \in hits : \A h \in hits : k <= h)
             IN  { m.price } \cup PricesFrom(s, m.next)

\* " ".join(messages)
RECURSIVE JoinSpace(_)
JoinSpace(messages) ==
    IF Len(messages) = 0 THEN ""
    ELSE IF Len(messages) = 1 THEN messages[1]
         ELSE messages[1] \o " " \o JoinSpace(Tail(messages))

\* [turn.message for turn in transcript if turn.speaker == speaker]
RECURSIVE MessagesOf(_, _)
MessagesOf(speaker, tr) ==
    IF Len(tr) = 0 THEN << >>
    ELSE IF Head(tr).speaker = speaker
         THEN <<Head(tr).message>> \o MessagesOf(speaker, Tail(tr))
         ELSE MessagesOf(speaker, Tail(tr))

\* the assistant texts of the conversations an experiment runs, joined
KnownPriceTexts ==
    LET known == AssistantReplies
                    \cup { ErrorPlaceholder(e) : e \in TransportErrors }
    IN  { JoinSpace(q) :
             q \in UNION { [1..n -> known] : n \in 1..MaxTurnsExp } }

\* PricesFrom of these texts, computed once
PriceTable == [t \in KnownPriceTexts |-> PricesFrom(t, 1)]

\* the amounts price_pattern finds in full_text
MentionedPrices(full_text) ==
    IF full_text \in KnownPriceTexts THEN PriceTable[full_text]
    ELSE PricesFrom(full_text, 1)

\* variant: the text scanned for prices holds the turns of both speakers
PriceText_AllTurns(tr) ==
    JoinSpace([i \in 1..Len(tr) |-> tr[i].message])

\* full_text of _check_hallucinated_plans
PriceText(tr) == JoinSpace(MessagesOf("assistant", tr))

\* HeuristicEvaluator._check_hallucinated_plans; details is the set of prices
\* the message lists
CheckHallucinatedPlans(tr) ==
    LET mentioned_prices == MentionedPrices(PriceText(tr))
        invalid_prices == mentioned_prices \ VALID_PLANS
    IN  IF invalid_prices # {}
        THEN HeuristicCheckResult("no_hallucinated_plans", FALSE,
                                  invalid_prices, "critical")
        ELSE HeuristicCheckResult("no_hallucinated_plans", TRUE,
                                  mentioned_prices, "info")

ContradictionSuffixes == <<"per month", "monthly", "plan">>

\* the pattern £(\d+)\s+(?:per month|monthly|plan) tried at position i of s
StatementAt(s, i) ==
    IF CharAt(s, i) = "£" /\ DigitRun(s, i + 1) > 0
    THEN LET d == DigitRun(s, i + 1)
             w == SpaceRun(s, i + 1 + d)
             j == i + 1 + d + w
             n == AltAt(ContradictionSuffixes, s, j)
         IN  IF w > 0 /\ n > 0
             THEN [matched |-> TRUE,
                   price |-> SubSeq(s, i + 1, i + d),
                   context |-> LowerOf(SubSeq(s, i, j + n - 1)),
                   next |-> j + n]
             ELSE [matched |-> FALSE, price |-> "", context |-> "",
                   next |-> i + 1]
    ELSE [matched |-> FALSE, price |-> "", context |-> "", next |-> i + 1]

\* re.finditer of that pattern from position i on: the pairs
\* <<group(1), group(0).lower()>>
RECURSIVE PriceStatementsFrom(_, _)
PriceStatementsFrom(s, i) ==
    LET hits == { k \in i..Len(s) : StatementAt(s, k).matched }
    IN  IF hits = {} THEN {}
        ELSE LET m == StatementAt(s, CHOOSE k \in hits : \A h \in hits : k <= h)
             IN  { <<m.price, m.context>> } \cup PriceStatementsFrom(s, m.next)

\* PriceStatementsFrom of the known texts, computed once
StatementTable == [m \in KnownTexts |-> PriceStatementsFrom(m, 1)]

PriceStatements(message) ==
    IF message \in KnownTexts THEN StatementTable[message]
    ELSE PriceStatementsFrom(message, 1)

\* HeuristicEvaluator._check_contradictions: a price stated again in a
\* context that differs from its first one
CheckContradictions(tr) ==
    LET msgs == MessagesOf("assistant", tr)
        statements == UNION { PriceStatements(msgs[k]) : k \in 1..Len(msgs) }
        contradictions_found ==
            { st[1] : st \in { x \in statements :
                                  \E y \in statements :
                                     x[1] = y[1] /\ x[2] # y[2] } }
    IN  IF contradictions_found # {}
        THEN HeuristicCheckResult("no_contradictions", FALSE,
                                  contradictions_found, "critical")
        ELSE HeuristicCheckResult("no_contradictions", TRUE, {}, "info")

\* len(message.split()): the positions at which a word starts
WordStarts(s) ==
    { i \in 1..Len(s) :
         /\ ~IsSpace(CharAt(s, i))
         /\ (i = 1 \/ IsSpace(CharAt(s, i - 1))) }

\* word counts of the known texts, computed once
WordCountTable == [m \in KnownTexts |-> Cardinality(WordStarts(m))]

WordCount(s) ==
    IF s \in KnownTexts THEN WordCountTable[s] ELSE Cardinality(WordStarts(s))

\* HeuristicEvaluator._check_response_length
CheckResponseLength(tr) ==
    LET msgs == MessagesOf("assistant", tr)
        issues == { k \in 1..Len(msgs) :
                       WordCount(msgs[k]) < 30 \/ WordCount(msgs[k]) > 400 }
    IN  IF issues # {}
        THEN HeuristicCheckResult("appropriate_response_length", FALSE,
                                  issues, "warning")
        ELSE HeuristicCheckResult("appropriate_response_length", TRUE, {},
                                  "info")

escalation_signals ==
    <<"speak to someone", "human", "person", "supervisor", "manager",
      "not helping", "useless", "waste of time", "escalate">>

escalation_offers ==
    <<"transfer you", "speak to", "specialist", "team member", "human agent",
      "escalate", "supervisor">>

\* the phrase tests on the known texts, computed once
SignalTable ==
    [m \in KnownTexts |-> AnyOf(escalation_signals, LowerOf(m))]

OfferTable ==
    [m \in KnownTexts |-> AnyOf(escalation_offers, LowerOf(m))]

\* any(signal in msg for signal in escalation_signals), msg lower-cased
SignalsEscalation(message) ==
    IF message \in KnownTexts THEN SignalTable[message]
    ELSE AnyOf(escalation_signals, LowerOf(message))

\* any(phrase in msg for phrase in [...]), msg lower-cased
OffersEscalation(message) ==
    IF message \in KnownTexts THEN OfferTable[message]
    ELSE AnyOf(escalation_offers, LowerOf(message))

\* HeuristicEvaluator._check_escalation_appropriateness
CheckEscalationAppropriateness(tr) ==
    LET user_messages == MessagesOf("user", tr)
        assistant_messages == MessagesOf("assistant", tr)
        user_requested_escalation ==
            \E k \in 1..Len(user_messages) :
               SignalsEscalation(user_messages[k])
        escalation_offered ==
            \E k \in 1..Len(assistant_messages) :
               OffersEscalation(assistant_messages[k])
    IN  IF user_requested_escalation /\ ~escalation_offered
        THEN HeuristicCheckResult("escalation_appropriateness", FALSE,
                                  {}, "warning")
        ELSE HeuristicCheckResult("escalation_appropriateness", TRUE, {},
                                  "info")

\* HeuristicEvaluator.evaluate
HeuristicEvaluate(tr) ==
    <<CheckHallucinatedPlans(tr), CheckContradictions(tr),
      CheckResponseLength(tr), CheckEscalationAppropriateness(tr)>>

\* HeuristicResults as run_experiment builds it from the checks
HeuristicResults(checks) ==
    LET critical == SelectSeq(checks,
                              LAMBDA c : ~c.passed /\ c.severity = "critical")
    IN  [checks |-> checks,
         all_passed |-> \A k \in 1..Len(checks) : checks[k].passed,
         critical_failures |->
            [k \in 1..Len(critical) |-> critical[k].check_name]]

-----------------------------------------------------------------------------
(* Inputs: personas and scenarios *)

PersonaOf(k, utterance) ==
    [id |-> "p" \o ToString(k), name |-> "Persona " \o ToString(k),
     max_patience_turns |-> k, seed_utterance |-> utterance]

\* personas handed to run_conversation and should_terminate
Personas == { PersonaOf(k, u) : k \in 1..MaxPatience, u \in SeedUtterances }

ScenarioIds == << "s1", "s2", "s3", "s4", "s5", "s6" >>

-----------------------------------------------------------------------------
(* ConversationOrchestrator.run_conversation *)

ConversationTurn(n, speaker, message, metadata) ==
    [turn_number |-> n, speaker |-> speaker, message |-> message,
     metadata |-> metadata]

HistoryEntry(role, content) == [role |-> role, content |-> content]

RECURSIVE Sum(_)
Sum(xs) == IF Len(xs) = 0 THEN 0 ELSE xs[1] + Sum(Tail(xs))

\* variant: the sum is not divided by the number of latencies
AverageLatency_Sum(ls) == [num |-> Sum(ls), den |-> 1]

\* sum(latencies) / len(latencies) if latencies else 0, as a fraction
AverageLatency(ls) ==
    IF Len(ls) = 0 THEN [num |-> 0, den |-> 1]
    ELSE [num |-> Sum(ls), den |-> Len(ls)]

SessionId(p, sc, sd) == "sim_" \o p.id \o "_" \o sc \o "_" \o ToString(sd)

\* variant: the participant id is built like the session id
ParticipantId_Sim(sd) == "sim_" \o ToString(sd)

\* f"llm_test_{seed}"
ParticipantId(sd) == "llm_test_" \o ToString(sd)

\* the dict built at conversation.py:195-203
ConvResult(tr, term, n, ls, p, sc, sd) ==
    [returned |-> TRUE,
     transcript |-> tr,
     termination |-> term,
     total_turns |-> n,
     average_latency_ms |-> AverageLatency(ls),
     session_id |-> SessionId(p, sc, sd)]

\* state of a call right after conversation.py:83-88
EnterConversation(p, sc, sd) ==
    /\ persona' = p
    /\ scenario' = sc
    /\ seed' = sd
    /\ transcript' = << >>
    /\ conversation_history' = << >>
    /\ latencies' = << >>
    /\ turn_number' = 0
    /\ termination' = NoTermination
    /\ st_result' = Continue
    /\ conv_result' = NoResult
    /\ pc' = "generate"

\* variant: the backend is called at every turn
CallsBackend_Always(n) == TRUE

\* generate_response reaches the backend call only after turn 1
CallsBackend(n) == n # 1

\* the value generate_response returns when it does not raise
GenerateResponse(p, n, reply) ==
    IF CallsBackend(n) THEN reply ELSE p.seed_utterance

\* UserSimulator.generate_response returning: the seed utterance at turn 1,
\* a backend reply afterwards; the user turn is recorded twice
GenerateUser(reply) ==
    /\ pc = "generate"
    /\ LET n == turn_number + 1
           user_message == GenerateResponse(persona, n, reply)
       IN  /\ turn_number' = n
           /\ transcript' =
                Append(transcript, ConversationTurn(n, "user", user_message, None))
           /\ conversation_history' =
                Append(conversation_history, HistoryEntry("user", user_message))
    /\ pc' = "send"
    /\ UNCHANGED <<max_turns, backend_replies, judge_vars, tool_vars, persona, scenario, seed, latencies, termination,
                   st_result, conv_result, runner_vars>>

\* variant: no outer except, the RuntimeError leaves run_conversation
SimulatorRaises_Propagates ==
    /\ pc = "generate"
    /\ CallsBackend(turn_number + 1)
    /\ turn_number' = turn_number + 1
    /\ pc' = "raised"
    /\ UNCHANGED <<max_turns, backend_replies, judge_vars, tool_vars, persona, scenario, seed, transcript,
                   conversation_history, latencies, termination, st_result,
                   conv_result, runner_vars>>

\* UserSimulator.generate_response raising RuntimeError (backend failure at
\* turn >= 2); the outer except of run_conversation finalises and returns
SimulatorRaises ==
    /\ pc = "generate"
    /\ CallsBackend(turn_number + 1)
    /\ LET n == turn_number + 1
           term == [reason |-> "error", turn_number |-> n,
                    details |-> "Error occurred: Failed to generate user response"]
       IN  /\ turn_number' = n
           /\ termination' = term
           /\ conv_result' = ConvResult(transcript, term, n, latencies,
                                        persona, scenario, seed)
    /\ pc' = "returned"
    /\ UNCHANGED <<max_turns, backend_replies, judge_vars, tool_vars, persona, scenario, seed, transcript,
                   conversation_history, latencies, st_result, runner_vars>>

\* send_message returning a reply
SendOk(reply, latency) ==
    /\ pc = "send"
    /\ latencies' = Append(latencies, latency)
    /\ transcript' =
         Append(transcript,
                ConversationTurn(turn_number, "assistant", reply,
                                 [latency_ms |-> latency]))
    /\ conversation_history' =
         Append(conversation_history, HistoryEntry("assistant", reply))
    /\ pc' = "check"
    /\ UNCHANGED <<max_turns, backend_replies, judge_vars, tool_vars, persona, scenario, seed, turn_number, termination,
                   st_result, conv_result, runner_vars>>

\* variant: no inner except, the error reaches the outer except
SendRaises_Aborts(e) ==
    /\ pc = "send"
    /\ LET term == [reason |-> "error", turn_number |-> turn_number,
                    details |-> "Error occurred: " \o e]
       IN  /\ termination' = term
           /\ conv_result' = ConvResult(transcript, term, turn_number, latencies,
                                        persona, scenario, seed)
    /\ pc' = "returned"
    /\ UNCHANGED <<max_turns, backend_replies, judge_vars, tool_vars, persona, scenario, seed, transcript,
                   conversation_history, latencies, turn_number, st_result,
                   runner_vars>>

\* variant: the placeholder is recorded in the transcript only
SendRaises_TranscriptOnly(e) ==
    /\ pc = "send"
    /\ transcript' =
         Append(transcript,
                ConversationTurn(turn_number, "assistant", ErrorPlaceholder(e),
                                 [latency_ms |-> 0]))
    /\ pc' = "check"
    /\ UNCHANGED <<max_turns, backend_replies, judge_vars, tool_vars, persona, scenario, seed, latencies, turn_number,
                   conversation_history, termination, st_result, conv_result,
                   runner_vars>>

\* send_message raising: the inner except records the placeholder turn
SendRaises(e) ==
    /\ pc = "send"
    /\ transcript' =
         Append(transcript,
                ConversationTurn(turn_number, "assistant", ErrorPlaceholder(e),
                                 [latency_ms |-> 0]))
    /\ conversation_history' =
         Append(conversation_history,
                HistoryEntry("assistant", ErrorPlaceholder(e)))
    /\ pc' = "check"
    /\ UNCHANGED <<max_turns, backend_replies, judge_vars, tool_vars, persona, scenario, seed, latencies, turn_number,
                   termination, st_result, conv_result, runner_vars>>

\* the termination check, then either the next iteration or the return
CheckTermination ==
    /\ pc = "check"
    /\ LET r == ShouldTerminate(max_turns, persona, conversation_history,
                                turn_number)
           term == [reason |-> r.reason, turn_number |-> turn_number,
                    details |-> r.details]
       IN  /\ st_result' = r
           /\ IF r.should_end
              THEN /\ termination' = term
                   /\ conv_result' = ConvResult(transcript, term, turn_number,
                                                latencies, persona, scenario, seed)
                   /\ pc' = "returned"
              ELSE /\ UNCHANGED <<termination, conv_result>>
                   /\ pc' = "generate"
    /\ UNCHANGED <<max_turns, backend_replies, judge_vars, tool_vars, persona, scenario, seed, transcript,
                   conversation_history, latencies, turn_number, runner_vars>>

ConvStep ==
    \/ \E reply \in backend_replies : GenerateUser(reply)
    \/ SimulatorRaises
    \/ \E reply \in AssistantReplies, latency \in Latencies : SendOk(reply, latency)
    \/ \E e \in TransportErrors : SendRaises(e)
    \/ CheckTermination

RunnerIdle ==
    /\ variant = None
    /\ personas = << >>
    /\ scenarios = << >>
    /\ p_idx = 0
    /\ s_idx = 0
    /\ current = 0
    /\ r_pc = "idle"
    /\ llm_scores = NoScores
    /\ conversations = << >>
    /\ summary = NoSummary
    /\ log = << >>

BaseSeed == 42

InitConv ==
    /\ max_turns \in 1..MaxTurnsCap
    /\ backend_replies = SimulatorReplies
    /\ persona \in Personas
    /\ scenario = ScenarioIds[1]
    /\ seed = BaseSeed + 1
    /\ transcript = << >>
    /\ conversation_history = << >>
    /\ latencies = << >>
    /\ turn_number = 0
    /\ termination = NoTermination
    /\ st_result = Continue
    /\ conv_result = NoResult
    /\ pc = "generate"
    /\ RunnerIdle
    /\ JudgeIdle
    /\ ToolsIdle

NextConv == ConvStep

SpecConv == InitConv /\ [][NextConv]_vars

ConvPositions == { "generate", "send", "check", "returned" }

\* the call in progress (generate_response, send_message, should_terminate)
\* returns or raises, which moves run_conversation to its next position
CallReturns ==
    /\ pc # "returned"
    /\ pc' \in ConvPositions

\* every call run_conversation makes returns or raises
SpecConvFair == SpecConv /\ WF_pc(CallReturns)

-----------------------------------------------------------------------------
(* ExperimentRunner.run_experiment *)

\* the ConversationRun built at runner.py:181-201
ConversationRun(n, p, sc, v, res, scores) ==
    [run_number |-> n,
     persona_id |-> p.id,
     scenario_id |-> sc,
     variant |-> v,
     transcript |-> res.transcript,
     termination |-> res.termination,
     llm_evaluation |-> scores,
     heuristic_results |-> HeuristicResults(HeuristicEvaluate(res.transcript)),
     seed |-> BaseSeed + n,
     total_turns |-> res.total_turns,
     average_latency_ms |-> res.average_latency_ms]

LogLine(kind, n, p, sc) ==
    [kind |-> kind, current |-> n, persona_id |-> p.id, scenario_id |-> sc]

\* termination_reasons of _compute_summary: reason -> count
TerminationReasons(convs) ==
    LET reasons == { convs[i].termination.reason : i \in 1..Len(convs) }
    IN  [r \in reasons |->
            Cardinality({ i \in 1..Len(convs) : convs[i].termination.reason = r })]

\* the conversations that did not end with reason error
RECURSIVE WithoutErrors(_)
WithoutErrors(convs) ==
    IF Len(convs) = 0 THEN << >>
    ELSE IF Head(convs).termination.reason = "error"
         THEN WithoutErrors(Tail(convs))
         ELSE << Head(convs) >> \o WithoutErrors(Tail(convs))

\* floats that are quotients, as fractions
Frac(num, den) == [num |-> num, den |-> den]

Zero == Frac(0, 1)

FracAdd(x, y) == Frac(x.num * y.den + y.num * x.den, x.den * y.den)

\* sum(values) / len(values), the values being integers
MeanOf(values) == Frac(Sum(values), Len(values))

\* sum(1 for flag in flags if flag)
CountOf(flags) == Cardinality({ i \in 1..Len(flags) : flags[i] })

\* sum(conv.average_latency_ms for conv in convs)
RECURSIVE LatencySum(_)
LatencySum(convs) ==
    IF Len(convs) = 0 THEN Zero
    ELSE FracAdd(Head(convs).average_latency_ms, LatencySum(Tail(convs)))

\* sum(values[i] for i in idxs)
RECURSIVE SumOver(_, _)
SumOver(values, idxs) ==
    IF idxs = {} THEN 0
    ELSE LET i == CHOOSE j \in idxs : TRUE
         IN values[i] + SumOver(values, idxs \ {i})

\* variant: every key gets the mean over all the values
GroupMeans_Overall(keys, values) ==
    [k \in { keys[i] : i \in 1..Len(keys) } |->
        Frac(SumOver(values, 1..Len(keys)), Len(keys))]

\* the defaultdict(list) grouping followed by sum(scores) / len(scores):
\* key -> mean of the values filed under it
GroupMeans(keys, values) ==
    [k \in { keys[i] : i \in 1..Len(keys) } |->
        LET idxs == { i \in 1..Len(keys) : keys[i] = k }
        IN Frac(SumOver(values, idxs), Cardinality(idxs))]

\* the SummaryStatistics of the non-empty case (runner.py:270-363)
SummaryOf(convs) ==
    LET total == Len(convs)
        idx == 1..total
        ev(i) == convs[i].llm_evaluation
        hr(i) == convs[i].heuristic_results
    IN  [computed |-> TRUE,
         total_conversations |-> total,
         successful_conversations |->
            CountOf([i \in idx |-> ev(i).task_success * 10 >= 7 * Unit]),
         avg_task_success |-> MeanOf([i \in idx |-> ev(i).task_success]),
         avg_clarity |-> MeanOf([i \in idx |-> ev(i).clarity]),
         avg_empathy |-> MeanOf([i \in idx |-> ev(i).empathy]),
         avg_policy_compliance |->
            MeanOf([i \in idx |-> ev(i).policy_compliance]),
         avg_overall_score |->
            MeanOf([i \in idx |-> ev(i).overall_weighted]),
         termination_reasons |-> TerminationReasons(convs),
         heuristic_pass_rate |->
            Frac(CountOf([i \in idx |-> hr(i).all_passed]), total),
         critical_failure_rate |->
            Frac(CountOf([i \in idx |-> Len(hr(i).critical_failures) > 0]),
                 total),
         avg_conversation_length |->
            MeanOf([i \in idx |-> convs[i].total_turns]),
         avg_latency_ms |->
            Frac(LatencySum(convs).num, LatencySum(convs).den * total),
         scores_by_persona |->
            GroupMeans([i \in idx |-> convs[i].persona_id],
                       [i \in idx |-> ev(i).overall_weighted]),
         scores_by_scenario |->
            GroupMeans([i \in idx |-> convs[i].scenario_id],
                       [i \in idx |-> ev(i).overall_weighted])]

\* the value a division by zero leaves: the call raises
Raised == [computed |-> FALSE, raised |-> "ZeroDivisionError"]

\* variant: the empty list is not told apart and the means divide by zero
EmptySummary_Divides == Raised

\* the SummaryStatistics of the empty case (runner.py:254-268)
EmptySummary ==
    [computed |-> TRUE,
     total_conversations |-> 0,
     successful_conversations |-> 0,
     avg_task_success |-> Zero,
     avg_clarity |-> Zero,
     avg_empathy |-> Zero,
     avg_policy_compliance |-> Zero,
     avg_overall_score |-> Zero,
     termination_reasons |-> << >>,
     heuristic_pass_rate |-> Zero,
     critical_failure_rate |-> Zero,
     avg_conversation_length |-> Zero,
     avg_latency_ms |-> Zero,
     scores_by_persona |-> None,
     scores_by_scenario |-> None]

\* variant: conversations that ended with reason error are left out
ComputeSummary_ExcludeErrors(convs) ==
    IF Len(WithoutErrors(convs)) = 0 THEN EmptySummary
    ELSE SummaryOf(WithoutErrors(convs))

\* ExperimentRunner._compute_summary
ComputeSummary(convs) ==
    IF Len(convs) = 0 THEN EmptySummary ELSE SummaryOf(convs)

\* the nested for loops have a pair left to run
PairsLeft == p_idx <= Len(personas) /\ s_idx <= Len(scenarios)

\* variant: the loops are nested the other way round, scenarios outside
AdvanceLoops_ScenarioMajor ==
    IF p_idx < Len(personas)
    THEN /\ p_idx' = p_idx + 1
         /\ s_idx' = s_idx
    ELSE /\ p_idx' = 1
         /\ s_idx' = s_idx + 1

\* advance the inner loop, then the outer one
AdvanceLoops ==
    IF s_idx < Len(scenarios)
    THEN /\ s_idx' = s_idx + 1
         /\ p_idx' = p_idx
    ELSE /\ s_idx' = 1
         /\ p_idx' = p_idx + 1

\* top of the loop body: the pair is logged and run_conversation is entered
StartPair ==
    /\ r_pc = "loop"
    /\ PairsLeft
    /\ current < MaxPairs
    /\ current' = current + 1
    /\ log' = Append(log, LogLine("running", current + 1, personas[p_idx],
                                  scenarios[s_idx]))
    /\ EnterConversation(personas[p_idx], scenarios[s_idx], BaseSeed + current + 1)
    /\ llm_scores' = NoScores
    /\ judge_response' = NoResponse
    /\ r_pc' = "conversation"
    /\ UNCHANGED <<max_turns, backend_replies, rubric, tool_vars, variant, personas,
                   scenarios, p_idx, s_idx, conversations, summary>>

\* what the judge's backend does in an experiment
RunnerJudgeResponses ==
    { Completion(ExampleCompletion),
      BackendRaises("Request timed out.") }

\* JudgeEvaluate of these responses under the default rubric, computed once
RunnerJudgeTable ==
    [r \in RunnerJudgeResponses |-> JudgeEvaluate(default_rubric, r)]

\* self.llm_judge.evaluate(...)
RunnerJudgeEvaluate(weights, response) ==
    IF weights = default_rubric /\ response \in RunnerJudgeResponses
    THEN RunnerJudgeTable[response]
    ELSE JudgeEvaluate(weights, response)

\* llm_judge.evaluate on the returned transcript
Judge(response) ==
    /\ r_pc = "conversation"
    /\ pc = "returned"
    /\ judge_response' = response
    /\ llm_scores' = RunnerJudgeEvaluate(rubric, response)
    /\ r_pc' = "heuristics"
    /\ UNCHANGED <<max_turns, backend_replies, rubric, tool_vars, conv_vars,
                   variant, personas, scenarios, p_idx, s_idx, current, conversations,
                   summary, log>>

\* heuristic_evaluator.evaluate, then the ConversationRun is appended
HeuristicsAndRecord ==
    /\ r_pc = "heuristics"
    /\ conversations' =
         Append(conversations,
                ConversationRun(current, persona, scenario, variant, conv_result,
                                llm_scores))
    /\ log' = Append(log, LogLine("completed", current, persona, scenario))
    /\ AdvanceLoops
    /\ r_pc' = "loop"
    /\ UNCHANGED <<max_turns, backend_replies, judge_vars, tool_vars, conv_vars, variant, personas, scenarios, current,
                   llm_scores, summary>>

\* variant: a failing pair ends the loops instead of continuing
PairFails_Abort ==
    /\ <<r_pc, pc>> \in { <<"conversation", "returned">>,
                          <<"conversation", "raised">>,
                          <<"heuristics", "returned">> }
    /\ log' = Append(log, LogLine("failed", current, persona, scenario))
    /\ p_idx' = Len(personas) + 1
    /\ s_idx' = 1
    /\ r_pc' = "loop"
    /\ UNCHANGED <<max_turns, backend_replies, judge_vars, tool_vars, conv_vars, variant, personas, scenarios,
                   current, llm_scores, conversations, summary>>

\* a step of the try body raises (run_conversation itself, the judge's prompt
\* building, the heuristics or the record): the except branch of the loop logs
\* the pair and continues with the next one
PairFails ==
    /\ <<r_pc, pc>> \in { <<"conversation", "returned">>,
                          <<"conversation", "raised">>,
                          <<"heuristics", "returned">> }
    /\ log' = Append(log, LogLine("failed", current, persona, scenario))
    /\ AdvanceLoops
    /\ r_pc' = "loop"
    /\ UNCHANGED <<max_turns, backend_replies, judge_vars, tool_vars, conv_vars, variant, personas, scenarios, current,
                   llm_scores, conversations, summary>>

\* after the loops: _compute_summary and the ExperimentRun
FinishExperiment ==
    /\ r_pc = "loop"
    /\ ~PairsLeft
    /\ summary' = ComputeSummary(conversations)
    /\ r_pc' = "done"
    /\ UNCHANGED <<max_turns, backend_replies, judge_vars, tool_vars, conv_vars, variant, personas, scenarios, p_idx, s_idx,
                   current, llm_scores, conversations, log>>

\* personas the loader resolves: position k of the id list
LoadedPersona(k) ==
    PersonaOf(k, IF k % 2 = 1
                 THEN "What plans do you have?"
                 ELSE "Signal keeps dropping on my train. This is ridiculous. Fix it now.")

\* the system prompt variants an experiment is run with
Variants == {"A", "B"}

Init ==
    /\ max_turns \in 1..MaxTurnsExp
    /\ backend_replies = { "What plans do you have?" }
    /\ variant \in Variants
    /\ \E np \in 0..MaxIds, ns \in 0..MaxIds :
          /\ personas = [k \in 1..np |-> LoadedPersona(k)]
          /\ scenarios = [k \in 1..ns |-> ScenarioIds[k]]
    /\ p_idx = 1
    /\ s_idx = 1
    /\ current = 0
    /\ r_pc = "loop"
    /\ llm_scores = NoScores
    /\ conversations = << >>
    /\ summary = NoSummary
    /\ log = << >>
    /\ persona = NoPersona
    /\ scenario = None
    /\ seed = 0
    /\ transcript = << >>
    /\ conversation_history = << >>
    /\ latencies = << >>
    /\ turn_number = 0
    /\ termination = NoTermination
    /\ st_result = Continue
    /\ conv_result = NoResult
    /\ pc = "idle"
    /\ JudgeIdle
    /\ ToolsIdle

Next ==
    \/ StartPair
    \/ ConvStep
    \/ \E response \in RunnerJudgeResponses : Judge(response)
    \/ HeuristicsAndRecord
    \/ PairFails
    \/ FinishExperiment

Spec == Init /\ [][Next]_vars

-----------------------------------------------------------------------------
(* should_terminate as a pure function: SpecTerm builds a history, then     *)
(* applies the checker to it with a persona and a turn number               *)

TermPersonas == { PersonaOf(k, "What plans do you have?") : k \in 1..MaxPatience }

TermAppend(role, content) ==
    /\ pc = "idle"
    /\ Len(conversation_history) < MaxHistory
    /\ conversation_history' =
         Append(conversation_history, HistoryEntry(role, content))
    /\ UNCHANGED <<max_turns, backend_replies, judge_vars, tool_vars, persona, scenario, transcript,
                   latencies, turn_number, termination, st_result, pc, seed,
                   conv_result, runner_vars>>

TermCall(p, t) ==
    /\ pc = "idle"
    /\ persona' = p
    /\ turn_number' = t
    /\ st_result' = ShouldTerminate(max_turns, p, conversation_history, t)
    /\ pc' = "called"
    /\ UNCHANGED <<max_turns, backend_replies, judge_vars, tool_vars, scenario, conversation_history,
                   transcript, latencies, termination, seed, conv_result,
                   runner_vars>>

InitTerm ==
    /\ max_turns \in 1..MaxTurnsCap
    /\ backend_replies = {}
    /\ persona = NoPersona
    /\ scenario = None
    /\ seed = 0
    /\ transcript = << >>
    /\ conversation_history = << >>
    /\ latencies = << >>
    /\ turn_number = 0
    /\ termination = NoTermination
    /\ st_result = Continue
    /\ conv_result = NoResult
    /\ pc = "idle"
    /\ RunnerIdle
    /\ JudgeIdle
    /\ ToolsIdle

NextTerm ==
    \/ \E content \in UserMsgs : TermAppend("user", content)
    \/ \E content \in AssistantReplies : TermAppend("assistant", content)
    \/ \E p \in TermPersonas, t \in 1..MaxTurnNumber : TermCall(p, t)

SpecTerm == InitTerm /\ [][NextTerm]_vars

-----------------------------------------------------------------------------
(* LLMJudge.evaluate applied to bounded backend behaviour *)

\* the try body runs to its return: a completion is received and parsed
EvaluateCompletion(text) ==
    /\ judge_response = NoResponse
    /\ judge_response' = Completion(text)
    /\ llm_scores' = JudgeEvaluate(rubric, Completion(text))
    /\ UNCHANGED <<max_turns, backend_replies, rubric, tool_vars, conv_vars,
                   variant, personas, scenarios, p_idx, s_idx, current, r_pc,
                   conversations, summary, log>>

\* the backend call, or the read of the response, raises
EvaluateFailure(e) ==
    /\ judge_response = NoResponse
    /\ judge_response' = BackendRaises(e)
    /\ llm_scores' = JudgeEvaluate(rubric, BackendRaises(e))
    /\ UNCHANGED <<max_turns, backend_replies, rubric, tool_vars, conv_vars,
                   variant, personas, scenarios, p_idx, s_idx, current, r_pc,
                   conversations, summary, log>>

InitJudge ==
    /\ max_turns = 1
    /\ backend_replies = {}
    /\ persona = NoPersona
    /\ scenario = None
    /\ seed = 0
    /\ transcript = << >>
    /\ conversation_history = << >>
    /\ latencies = << >>
    /\ turn_number = 0
    /\ termination = NoTermination
    /\ st_result = Continue
    /\ conv_result = NoResult
    /\ pc = "idle"
    /\ RunnerIdle
    /\ rubric \in Rubrics
    /\ judge_response = NoResponse
    /\ ToolsIdle

NextJudge ==
    \/ \E text \in JudgeCompletions : EvaluateCompletion(text)
    \/ \E e \in JudgeErrors : EvaluateFailure(e)

SpecJudge == InitJudge /\ [][NextJudge]_vars

\* LLMJudge.evaluate under any rubric the configuration may hold
InitRubric ==
    /\ max_turns = 1
    /\ backend_replies = {}
    /\ persona = NoPersona
    /\ scenario = None
    /\ seed = 0
    /\ transcript = << >>
    /\ conversation_history = << >>
    /\ latencies = << >>
    /\ turn_number = 0
    /\ termination = NoTermination
    /\ st_result = Continue
    /\ conv_result = NoResult
    /\ pc = "idle"
    /\ RunnerIdle
    /\ rubric \in AnyRubrics
    /\ judge_response = NoResponse
    /\ ToolsIdle

SpecRubric == InitRubric /\ [][NextJudge]_vars

-----------------------------------------------------------------------------
(* HeuristicEvaluator.evaluate applied to bounded transcripts *)

HeurAssistantMsgs ==
    { "Lite Mobile is £8 per month.",
      "Our best plan is £99 per month.",
      "Everyday Mobile costs 15 per month",
      "That tariff is 99 per month.",
      "I can transfer you to a specialist.",
      "You get 100 minutes and 5GB for £25 monthly." }

HeurUserMsgs ==
    { "I saw a plan for £99 per month",
      "I need a human" }

\* a stored message becomes the next turn of the transcript; an assistant
\* message closes the turn
HeurAppend(speaker, message) ==
    /\ heuristic_checks = NoChecks
    /\ Len(transcript) < MaxCheckedTurns
    /\ transcript' =
         Append(transcript,
                ConversationTurn(Len(MessagesOf("assistant", transcript)) + 1,
                                 speaker, message, None))
    /\ UNCHANGED <<max_turns, backend_replies, judge_vars, tool_vars, persona,
                   scenario, conversation_history, latencies, turn_number,
                   termination, st_result, pc, seed, conv_result, runner_vars>>

\* heuristic_evaluator.evaluate(transcript)
HeurEvaluate ==
    /\ heuristic_checks = NoChecks
    /\ heuristic_checks' = HeuristicEvaluate(transcript)
    /\ UNCHANGED <<max_turns, backend_replies, judge_vars, store_vars, cmp_vars, chat_vars,
                   conv_vars, runner_vars>>

InitHeur ==
    /\ max_turns = 1
    /\ backend_replies = {}
    /\ persona = NoPersona
    /\ scenario = None
    /\ seed = 0
    /\ transcript = << >>
    /\ conversation_history = << >>
    /\ latencies = << >>
    /\ turn_number = 0
    /\ termination = NoTermination
    /\ st_result = Continue
    /\ conv_result = NoResult
    /\ pc = "idle"
    /\ RunnerIdle
    /\ JudgeIdle
    /\ ToolsIdle

NextHeur ==
    \/ \E message \in HeurAssistantMsgs : HeurAppend("assistant", message)
    \/ \E message \in HeurUserMsgs : HeurAppend("user", message)
    \/ HeurEvaluate

SpecHeur == InitHeur /\ [][NextHeur]_vars

-----------------------------------------------------------------------------
(* Claims about should_terminate, checked under SpecTerm *)

\* content of the most recent user message, as stored (not lowercased)
RECURSIVE LastUserContent(_)
LastUserContent(history) ==
    IF Len(history) = 0 THEN None
    ELSE IF history[Len(history)].role = "user"
         THEN history[Len(history)].content
         ELSE LastUserContent(SubSeq(history, 1, Len(history) - 1))

HasPhrase(msg) ==
    \/ AnyIn(satisfaction_indicators, msg)
    \/ AnyIn(escalation_phrases, msg)
    \/ AnyIn(repetition_indicators, msg)
    \/ AnyIn(frustration_words, msg)

\* no user message of the history holds a satisfaction, escalation,
\* repetition or frustration phrase
NoPhraseEver(history) ==
    \A k \in 1..Len(UserMessages(history)) : ~HasPhrase(UserMessages(history)[k])

\* C1: whenever turn_number >= max_turns, should_terminate returns
\* (True, "max_turns", ...), whatever the persona and the history hold.
C1_MaxTurnsFires ==
    (pc = "called" /\ turn_number >= max_turns)
        => (st_result.should_end /\ st_result.reason = "max_turns")

\* a call at the cap whose last user message holds a closing phrase and an
\* escalation phrase, with the persona's patience exceeded as well
C1_Witness ==
    /\ pc = "called"
    /\ turn_number >= max_turns
    /\ turn_number >= 2
    /\ ClosingDetected(LastMsgOf("user", conversation_history))
    /\ EscalationRequested(LastMsgOf("user", conversation_history))
    /\ PatienceExceeded(persona, turn_number)
    /\ st_result.reason = "max_turns"

RuleOrder ==
    << "max_turns", "satisfaction", "escalation", "stalemate", "patience_exceeded" >>

\* the condition of a rule as should_terminate evaluates it; the rules after
\* max_turns are only evaluated from turn 2 on (termination.py:50)
RuleHolds(rule) ==
    LET last_user_msg == LastMsgOf("user", conversation_history)
    IN  CASE rule = "max_turns" -> turn_number >= max_turns
          [] rule = "satisfaction" ->
                /\ turn_number >= 2
                /\ \/ ClosingDetected(last_user_msg)
                   \/ ThanksDetected(last_user_msg, turn_number)
          [] rule = "escalation" ->
                turn_number >= 2 /\ EscalationRequested(last_user_msg)
          [] rule = "stalemate" ->
                turn_number >= 2 /\ StalemateDetected(conversation_history, turn_number)
          [] rule = "patience_exceeded" ->
                turn_number >= 2 /\ PatienceExceeded(persona, turn_number)

RulesHolding == { k \in 1..Len(RuleOrder) : RuleHolds(RuleOrder[k]) }

\* C2: the rules are applied in the order max_turns, satisfaction, escalation,
\* stalemate, patience_exceeded; the returned reason is that of the earliest
\* rule whose condition holds, and the result is False when none holds.
C2_FirstMatchWins ==
    pc = "called" =>
        IF RulesHolding = {}
        THEN st_result = Continue
        ELSE /\ st_result.should_end
             /\ st_result.reason =
                  RuleOrder[CHOOSE k \in RulesHolding : \A j \in RulesHolding : k <= j]

\* a call on which satisfaction, escalation and patience_exceeded hold at once
C2_Witness ==
    /\ pc = "called"
    /\ {2, 3, 5} \subseteq RulesHolding
    /\ 1 \notin RulesHolding
    /\ st_result.reason = "satisfaction"

\* C3 as stated: patience 4, any max_turns > 4, no phrase ever: False at
\* turns 1 to 4 and True with patience_exceeded at turn 5.
C3_Original ==
    (/\ pc = "called"
     /\ persona.max_patience_turns = 4
     /\ max_turns > 4
     /\ NoPhraseEver(conversation_history))
        => /\ turn_number \in 1..4 => ~st_result.should_end
           /\ turn_number = 5 =>
                (st_result.should_end /\ st_result.reason = "patience_exceeded")

\* C3 amended: patience 4, any max_turns > 5, no phrase ever: False at turns
\* 1 to 4 and True with patience_exceeded at turn 5.
C3_PatienceAtTurnFive ==
    (/\ pc = "called"
     /\ persona.max_patience_turns = 4
     /\ max_turns > 5
     /\ NoPhraseEver(conversation_history))
        => /\ turn_number \in 1..4 => ~st_result.should_end
           /\ turn_number = 5 =>
                (st_result.should_end /\ st_result.reason = "patience_exceeded")

\* the turn-5 call on a phrase-free history of three user messages
C3_Witness ==
    /\ pc = "called"
    /\ persona.max_patience_turns = 4
    /\ max_turns > 5
    /\ turn_number = 5
    /\ Len(UserMessages(conversation_history)) = MaxHistory
    /\ NoPhraseEver(conversation_history)
    /\ st_result.reason = "patience_exceeded"

\* C4 as stated: from turn 2 on, a last user message "That's all, thank you."
\* yields satisfaction whatever the turn number.
C4_Original ==
    (/\ pc = "called"
     /\ turn_number >= 2
     /\ LastUserContent(conversation_history) = "That's all, thank you.")
        => (st_result.should_end /\ st_result.reason = "satisfaction")

\* C4 amended: for 2 <= turn_number < max_turns, a last user message
\* "That's all, thank you." yields satisfaction, whatever the persona and the
\* earlier history.
C4_ClosingBelowCap ==
    (/\ pc = "called"
     /\ turn_number >= 2
     /\ turn_number < max_turns
     /\ LastUserContent(conversation_history) = "That's all, thank you.")
        => (st_result.should_end /\ st_result.reason = "satisfaction")

\* the closing message at turn 2, after an earlier user message
C4_Witness ==
    /\ pc = "called"
    /\ turn_number = 2
    /\ turn_number < max_turns
    /\ Len(UserMessages(conversation_history)) >= 2
    /\ LastUserContent(conversation_history) = "That's all, thank you."
    /\ st_result.reason = "satisfaction"

-----------------------------------------------------------------------------
(* Claims about run_conversation, checked under SpecConv *)

\* largest turn_number of a transcript, 0 for the empty one
MaxTurnIn(tr) ==
    IF Len(tr) = 0 THEN 0
    ELSE CHOOSE n \in { tr[i].turn_number : i \in 1..Len(tr) } :
            \A i \in 1..Len(tr) : tr[i].turn_number <= n

IsErrorPlaceholder(m) == Len(m) >= 8 /\ SubSeq(m, 1, 8) = "[ERROR: "

\* C5: every result of run_conversation, also one that ends with reason
\* error, has total_turns equal to the largest turn_number of its transcript.
C5_TotalTurnsIsMaxTurn ==
    conv_result.returned
        => conv_result.total_turns = MaxTurnIn(conv_result.transcript)

\* C6: in every returned transcript each turn number from 1 to total_turns
\* appears on a turn whose speaker is "user".
C6_EveryTurnHasUser ==
    conv_result.returned
        => \A n \in 1..conv_result.total_turns :
              \E i \in 1..Len(conv_result.transcript) :
                 /\ conv_result.transcript[i].turn_number = n
                 /\ conv_result.transcript[i].speaker = "user"

C7_Step ==
    /\ (pc = "send" /\ latencies' = latencies)
          => /\ pc' = "check"
             /\ turn_number' = turn_number
             /\ termination' = NoTermination
             /\ Len(transcript') = Len(transcript) + 1
             /\ SubSeq(transcript', 1, Len(transcript)) = transcript
             /\ transcript'[Len(transcript')].turn_number = turn_number
             /\ transcript'[Len(transcript')].speaker = "assistant"
             /\ IsErrorPlaceholder(transcript'[Len(transcript')].message)
    /\ pc = "check"
          => /\ st_result' = ShouldTerminate(max_turns, persona,
                                             conversation_history, turn_number)
             /\ IF st_result'.should_end
                THEN pc' = "returned" /\ termination'.reason = st_result'.reason
                ELSE pc' = "generate" /\ termination' = NoTermination
    /\ (pc = "generate" /\ pc' = "send") => turn_number' = turn_number + 1
    /\ (termination'.reason = "error" /\ termination.reason # "error")
          => pc = "generate"

\* C7: a failing send_message at turn n appends the assistant turn n holding
\* the "[ERROR: ...]" placeholder, the termination check for turn n still
\* runs, turn n+1 follows when the check does not fire, and reason error
\* never comes from a transport failure.
C7_TransportErrorContinues == [][C7_Step]_vars

\* a placeholder turn n followed by the user turn n+1
C7_Witness ==
    \E i \in 1..Len(transcript) :
        /\ i < Len(transcript)
        /\ IsErrorPlaceholder(transcript[i].message)
        /\ transcript[i + 1].speaker = "user"
        /\ transcript[i + 1].turn_number = transcript[i].turn_number + 1

C8_Step ==
    /\ pc' # "raised"
    /\ (pc = "generate" /\ pc' # "send")
          => /\ pc' = "returned"
             /\ conv_result'.returned
             /\ conv_result'.termination.reason = "error"
             /\ conv_result'.termination.turn_number = turn_number + 1
             /\ conv_result'.transcript = transcript

\* C8: an exception raised inside the turn loop never leaves
\* run_conversation: when the simulator raises at turn n the call returns
\* with reason error and turn_number n, and with every turn recorded so far.
C8_NoPropagation == [][C8_Step]_vars

\* a call that returned with reason error at turn 3 or later
C8_Witness ==
    /\ pc = "returned"
    /\ conv_result.returned
    /\ conv_result.termination.reason = "error"
    /\ conv_result.termination.turn_number >= 3
    /\ Len(conv_result.transcript) = 2 * (conv_result.termination.turn_number - 1)

-----------------------------------------------------------------------------
(* Claims about run_experiment, checked under Spec *)

ErrorRuns(convs) ==
    { i \in 1..Len(convs) : convs[i].termination.reason = "error" }

\* C9 as stated: a pair whose simulator backend failed (its conversation ends
\* with reason error) leaves no ConversationRun and is not counted in the
\* summary.
C9_Original ==
    /\ ErrorRuns(conversations) = {}
    /\ summary.computed => "error" \notin DOMAIN summary.termination_reasons

C9_Step ==
    /\ pc' # "raised"
    /\ (pc = "generate" /\ pc' = "returned")
          => /\ termination'.reason = "error"
             /\ conv_result'.termination.reason = "error"
             /\ r_pc' = r_pc
             /\ log' = log
    /\ (/\ r_pc = "heuristics"
        /\ termination.reason = "error"
        /\ r_pc' = "loop"
        /\ log'[Len(log')].kind # "failed")
          => /\ Len(conversations') = Len(conversations) + 1
             /\ SubSeq(conversations', 1, Len(conversations)) = conversations
             /\ conversations'[Len(conversations')].termination.reason = "error"
             /\ conversations'[Len(conversations')].persona_id = persona.id
             /\ conversations'[Len(conversations')].scenario_id = scenario
             /\ conversations'[Len(conversations')].transcript = transcript
    /\ (summary'.computed /\ ~summary.computed)
          => /\ summary'.total_conversations = Len(conversations)
             /\ ErrorRuns(conversations) # {}
                   => /\ "error" \in DOMAIN summary'.termination_reasons
                      /\ summary'.termination_reasons["error"] =
                            Cardinality(ErrorRuns(conversations))

\* C9 amended: a simulator backend failure is caught inside run_conversation,
\* which returns with reason error; the Runner's except branch is not taken
\* for it, and unless a later step of the pair raises, a ConversationRun with
\* reason error is appended for the pair and counted in the summary.
C9_SimulatorFailureRecorded == [][C9_Step]_vars

\* a finished experiment holding a run that ended with reason error
C9_Witness ==
    /\ r_pc = "done"
    /\ summary.computed
    /\ ErrorRuns(conversations) # {}
    /\ summary.termination_reasons["error"] >= 1

LinesOf(kind) == { k \in 1..Len(log) : log[k].kind = kind }

\* C10: every pair of the cross-product is attempted exactly once; a failed
\* pair is not attempted again, leaves no ConversationRun, and the pairs
\* after it are still attempted.
C10_EveryPairOnce ==
    /\ \A k1, k2 \in LinesOf("running") :
          (/\ log[k1].persona_id = log[k2].persona_id
           /\ log[k1].scenario_id = log[k2].scenario_id) => k1 = k2
    /\ \A k \in LinesOf("failed") :
          \A i \in 1..Len(conversations) :
             conversations[i].run_number # log[k].current
    /\ r_pc = "done" =>
          \A i \in 1..Len(personas), j \in 1..Len(scenarios) :
             Cardinality({ k \in LinesOf("running") :
                             /\ log[k].persona_id = personas[i].id
                             /\ log[k].scenario_id = scenarios[j] }) = 1

\* a finished experiment in which a pair failed and a later pair was attempted
\* and recorded
C10_Witness ==
    /\ r_pc = "done"
    /\ \E k \in LinesOf("failed") :
          \E k2 \in LinesOf("completed") : k2 > k
    /\ Len(conversations) >= 1

-----------------------------------------------------------------------------
(* Claims about LLMJudge *)

DimScores(scores) ==
    <<scores.task_success, scores.clarity, scores.empathy,
      scores.policy_compliance>>

C11_Step ==
    /\ (judge_response' # judge_response /\ judge_response'.kind = "raises")
          => /\ r_pc' = "heuristics"
             /\ llm_scores'.evaluated
             /\ DimScores(llm_scores') = <<0, 0, 0, 0>>
             /\ llm_scores'.overall_weighted = 0
             /\ llm_scores'.rationale =
                   "Error during evaluation: " \o judge_response'.text
             /\ log' = log
             /\ conversations' = conversations
    /\ (r_pc = "heuristics" /\ judge_response.kind = "raises")
          => /\ ENABLED HeuristicsAndRecord
             /\ (Len(log') > Len(log) /\ log'[Len(log')].kind = "completed")
                   => /\ Len(conversations') = Len(conversations) + 1
                      /\ conversations'[Len(conversations')].llm_evaluation
                            = llm_scores
                      /\ conversations'[Len(conversations')].llm_evaluation
                            .overall_weighted = 0

\* C11: when the judge's backend fails, evaluate raises nothing and returns
\* scores whose four dimensions and overall_weighted are 0 and whose rationale
\* carries the error message; the Runner's except branch is not entered by
\* it, and the ConversationRun the Runner then appends holds these scores.
C11_JudgeFailureScoresZero == [][C11_Step]_vars

\* a recorded run whose judge call timed out
C11_Witness ==
    \E i \in 1..Len(conversations) :
       /\ conversations[i].llm_evaluation.rationale =
             "Error during evaluation: Request timed out."
       /\ conversations[i].llm_evaluation.overall_weighted = 0
       /\ conversations[i].llm_evaluation.task_success = 0

\* C12, first part: overall_weighted is the rubric-weighted sum of the four
\* dimension scores of the same EvaluationScores
WeightedSumHolds ==
    llm_scores.evaluated
       => llm_scores.overall_weighted * Unit =
             llm_scores.task_success * WeightsGet(rubric, "task_success", 5000)
             + llm_scores.clarity * WeightsGet(rubric, "clarity", 2000)
             + llm_scores.empathy * WeightsGet(rubric, "empathy", 2000)
             + llm_scores.policy_compliance
                  * WeightsGet(rubric, "policy_compliance", 1000)

ExampleCase ==
    /\ llm_scores.evaluated
    /\ rubric = default_rubric
    /\ DimScores(llm_scores) = <<8000, 6000, 10000, 5000>>

\* C12 as stated: the weighted sum, and 0.81 for the example rubric and scores
C12_Original ==
    /\ WeightedSumHolds
    /\ ExampleCase => llm_scores.overall_weighted = 8100

\* C12 amended: overall_weighted is the rubric-weighted sum of the parsed
\* dimension scores, whatever overall figure the completion itself states;
\* for the example rubric and scores (0.8, 0.6, 1.0, 0.5) it is 0.77.
C12_WeightedSum ==
    /\ WeightedSumHolds
    /\ ExampleCase => llm_scores.overall_weighted = 7700

\* the example scores parsed from a completion that states its own overall
\* figure
C12_Witness ==
    /\ ExampleCase
    /\ judge_response.kind = "completion"
    /\ Contains("OVERALL_WEIGHTED: 0.2", judge_response.text)
    /\ llm_scores.overall_weighted = 7700

\* the score each way of writing a dimension's line must give
ExpectedScore(d, kind) ==
    CASE kind = "score" -> <<8000, 6000, 10000, 5000>>[d]
      [] kind = "above_one" -> Unit
      [] kind = "bracketed" -> Half
      [] kind = "absent" -> Half

\* C13: every dimension score derived from a received completion lies in
\* [0, 1]; a dimension without a matching line is 0.5, a number above 1 is
\* clamped to 1.0, evaluate does not fail, and each dimension's score depends
\* on its own line only.
C13_ScoresInRange ==
    judge_response.kind = "completion"
       => /\ llm_scores.evaluated
          /\ llm_scores.rationale = judge_response.text
          /\ \A d \in 1..4 : DimScores(llm_scores)[d] \in 0..Unit
          /\ \A f \in LineChoices, trailer \in Trailers :
                judge_response.text = CompletionText(f, trailer)
                   => \A d \in 1..4 :
                         DimScores(llm_scores)[d] = ExpectedScore(d, f[d])
          /\ judge_response.text = "I cannot evaluate this conversation."
                => DimScores(llm_scores) = <<Half, Half, Half, Half>>
          /\ Contains("task_success: 7", judge_response.text)
                => DimScores(llm_scores) = <<Unit, Unit, Half, 2500>>

\* a completion with a malformed, an over-range and a missing dimension next
\* to a well-formed one
C13_Witness ==
    /\ judge_response.kind = "completion"
    /\ judge_response.text =
          CompletionText([d \in 1..4 |->
                            <<"bracketed", "above_one", "absent", "score">>[d]],
                         "")
    /\ DimScores(llm_scores) = <<Half, Unit, Half, 5000>>

-----------------------------------------------------------------------------
(* Claims about HeuristicEvaluator *)

\* the plan prices of the catalogue
AllowList == { 8, 15, 25, 32, 42, 55, 70, 85 }

\* the prices a message of SpecHeur mentions as £NN or NN per month
PricesMentioned(message) ==
    CASE message = "Lite Mobile is £8 per month." -> { 8 }
      [] message = "Our best plan is £99 per month." -> { 99 }
      [] message = "Everyday Mobile costs 15 per month" -> { 15 }
      [] message = "That tariff is 99 per month." -> { 99 }
      [] message = "I can transfer you to a specialist." -> {}
      [] message = "You get 100 minutes and 5GB for £25 monthly." -> { 25 }
      [] message = "I saw a plan for £99 per month" -> { 99 }
      [] message = "I need a human" -> {}

AssistantPrices(tr) ==
    UNION { PricesMentioned(tr[i].message) :
               i \in { k \in 1..Len(tr) : tr[k].speaker = "assistant" } }

\* C18: no_hallucinated_plans passes exactly when every price the assistant's
\* messages mention is in the allow-list, fails with severity critical
\* otherwise, and does not depend on the user turns.
C18_NoHallucinatedPlans ==
    heuristic_checks # NoChecks
       => /\ heuristic_checks[1].check_name = "no_hallucinated_plans"
          /\ heuristic_checks[1].passed
                <=> AssistantPrices(transcript) \subseteq AllowList
          /\ ~heuristic_checks[1].passed
                => heuristic_checks[1].severity = "critical"

\* a user turn quotes £99, the assistant quotes £8 only, and the check passes
C18_Witness ==
    /\ heuristic_checks # NoChecks
    /\ Len(transcript) = 2
    /\ transcript[1].speaker = "user"
    /\ transcript[1].message = "I saw a plan for £99 per month"
    /\ transcript[2].speaker = "assistant"
    /\ transcript[2].message = "Lite Mobile is £8 per month."
    /\ heuristic_checks[1].passed

-----------------------------------------------------------------------------
(* Claims about the summary *)

ZeroField(x) == x.num = 0 /\ x.den # 0

\* C14: the summary of an empty list of ConversationRun (every pair failed, or
\* no pair was given) is computed without raising: total_conversations and
\* successful_conversations are 0, every mean and rate is 0.0 and the
\* histogram of termination reasons is empty.
C14_EmptySummaryIsZero ==
    /\ r_pc = "done" => summary.computed
    /\ (r_pc = "done" /\ conversations = << >>)
          => /\ summary.total_conversations = 0
             /\ summary.successful_conversations = 0
             /\ ZeroField(summary.avg_task_success)
             /\ ZeroField(summary.avg_clarity)
             /\ ZeroField(summary.avg_empathy)
             /\ ZeroField(summary.avg_policy_compliance)
             /\ ZeroField(summary.avg_overall_score)
             /\ ZeroField(summary.heuristic_pass_rate)
             /\ ZeroField(summary.critical_failure_rate)
             /\ ZeroField(summary.avg_conversation_length)
             /\ ZeroField(summary.avg_latency_ms)
             /\ DOMAIN summary.termination_reasons = {}
    /\ (r_pc = "done" /\ conversations # << >>)
          => /\ summary.total_conversations = Len(conversations)
             /\ summary.avg_task_success.den = Len(conversations)
             /\ summary.avg_latency_ms.den # 0

\* an experiment whose pairs all failed, summarised
C14_Witness ==
    /\ r_pc = "done"
    /\ conversations = << >>
    /\ Cardinality(LinesOf("failed")) >= 2
    /\ summary.computed
    /\ summary.total_conversations = 0

-----------------------------------------------------------------------------
(* HumanTranscriptEvaluator._compare_ratings (evaluate_human_transcripts.py) *)

\* an optional number: Python's None, or a value
NoneNumber == [is_none |-> TRUE]

Number(v) == [is_none |-> FALSE, value |-> v]

\* Python's truth value of an optional number: None and 0 are false
RatingGiven(x) == ~x.is_none /\ x.value # 0

\* round(x, ndigits) on fixed-point x: the nearest multiple of step, a tie
\* going to the even multiple
RoundTo(x, step) ==
    LET q == x \div step
        r == x % step
    IN IF 2 * r > step \/ (2 * r = step /\ q % 2 = 1)
       THEN (q + 1) * step
       ELSE q * step

\* round(score * 4 + 1, 1)
Rescale(score) == RoundTo(score * 4 + Unit, Unit \div 10)

\* variant: the rescaled value is subtracted from the human rating
DeltaOf_HumanMinusLaj(laj, human) ==
    IF RatingGiven(human)
    THEN Number(RoundTo(human.value * Unit - laj, Unit \div 100))
    ELSE NoneNumber

\* round(laj - human, 2) if human else None
DeltaOf(laj, human) ==
    IF RatingGiven(human)
    THEN Number(RoundTo(laj - human.value * Unit, Unit \div 100))
    ELSE NoneNumber

\* one entry of the comparison dict
CompareDimension(score, human) ==
    [laj |-> Rescale(score), human |-> human,
     delta |-> DeltaOf(Rescale(score), human)]

\* _compare_ratings(llm_scores, feedback)
CompareRatings(scores, fb) ==
    [compared |-> TRUE,
     task_success |-> CompareDimension(scores.task_success,
                                       fb.rating_task_success),
     clarity |-> CompareDimension(scores.clarity, fb.rating_clarity),
     empathy |-> CompareDimension(scores.empathy, fb.rating_empathy)]

\* judge scores on the grid of hundredths
ScoreGrid == { k * (Unit \div 100) : k \in 0..100 }

\* the scores the judge returned for the session
CmpScores ==
    { EvaluationScores(ts, cl, em, Half,
                       WeightedOverall(default_rubric, ts, cl, em, Half), "")
        : ts \in ScoreGrid, cl \in {0, 3300, Unit}, em \in {9000, 1250} }

\* the self-ratings a feedback record can hold: absent, 0, or 1 to 5
HumanRatings == {NoneNumber} \cup { Number(h) : h \in 0..5 }

\* feedback records of the external store
Feedbacks ==
    { [rating_task_success |-> h_ts, rating_clarity |-> h_cl,
       rating_empathy |-> h_em]
        : h_ts \in HumanRatings, h_cl \in {NoneNumber, Number(3)},
          h_em \in {Number(4), Number(5)} }

\* evaluate_session: the comparison is made when a feedback record is given
CmpCompareRatings ==
    /\ comparison = NoComparison
    /\ feedback # NoFeedback
    /\ comparison' = CompareRatings(llm_scores, feedback)
    /\ UNCHANGED <<max_turns, backend_replies, judge_vars, heur_vars, store_vars, feedback,
                   chat_vars, conv_vars, runner_vars>>

InitCompare ==
    /\ max_turns = 1
    /\ backend_replies = {}
    /\ persona = NoPersona
    /\ scenario = None
    /\ seed = 0
    /\ transcript = << >>
    /\ conversation_history = << >>
    /\ latencies = << >>
    /\ turn_number = 0
    /\ termination = NoTermination
    /\ st_result = Continue
    /\ conv_result = NoResult
    /\ pc = "idle"
    /\ variant = None
    /\ personas = << >>
    /\ scenarios = << >>
    /\ p_idx = 0
    /\ s_idx = 0
    /\ current = 0
    /\ r_pc = "idle"
    /\ llm_scores \in CmpScores
    /\ conversations = << >>
    /\ summary = NoSummary
    /\ log = << >>
    /\ JudgeIdle
    /\ HeurIdle
    /\ StoreIdle
    /\ ChatIdle
    /\ feedback \in Feedbacks \cup {NoFeedback}
    /\ comparison = NoComparison

NextCompare == CmpCompareRatings

SpecCompare == InitCompare /\ [][NextCompare]_vars

-----------------------------------------------------------------------------
(* Claims about the reconciliation *)

CmpDims == {"task_success", "clarity", "empathy"}

ScoreOf(d) ==
    CASE d = "task_success" -> llm_scores.task_success
      [] d = "clarity" -> llm_scores.clarity
      [] d = "empathy" -> llm_scores.empathy

HumanOf(d) ==
    CASE d = "task_success" -> feedback.rating_task_success
      [] d = "clarity" -> feedback.rating_clarity
      [] d = "empathy" -> feedback.rating_empathy

\* C15: the delta of a dimension is the rescaled judge value score*4+1 minus
\* the human self-rating; for human rating 4 and judge score 0.9 the rescaled
\* value is 4.6 and the delta is +0.6.
C15_DeltaIsRescaledMinusHuman ==
    comparison.compared =>
       \A d \in CmpDims :
          RatingGiven(HumanOf(d)) =>
             /\ ~comparison[d].delta.is_none
             /\ comparison[d].delta.value
                   = (ScoreOf(d) * 4 + Unit) - HumanOf(d).value * Unit

\* the worked example of C15: score 0.9 and human rating 4 give 4.6 and +0.6
C15_Example ==
    (/\ comparison.compared
     /\ llm_scores.task_success = 9000
     /\ feedback.rating_task_success = Number(4))
       => /\ comparison.task_success.laj = 46000
          /\ comparison.task_success.delta = Number(6000)

\* C16 as stated: the delta of a dimension is the human self-rating minus the
\* rescaled judge value.
C16_Original ==
    comparison.compared =>
       \A d \in CmpDims :
          RatingGiven(HumanOf(d)) =>
             /\ ~comparison[d].delta.is_none
             /\ comparison[d].delta.value
                   = HumanOf(d).value * Unit - comparison[d].laj

\* C16: the delta of a dimension is the reported 1-5 judge value minus the
\* human self-rating (positive when the judge rated higher), and None when
\* the self-rating is absent or 0.
C16_DeltaIsLajMinusHuman ==
    comparison.compared =>
       \A d \in CmpDims :
          /\ comparison[d].human = HumanOf(d)
          /\ RatingGiven(HumanOf(d)) =>
                comparison[d].delta
                   = Number(comparison[d].laj - HumanOf(d).value * Unit)
          /\ ~RatingGiven(HumanOf(d)) => comparison[d].delta = NoneNumber

\* a comparison whose judge value lies above one rating and below another
C16_Witness ==
    /\ comparison.compared
    /\ comparison.task_success.delta = Number(6000)
    /\ comparison.clarity.delta = Number(-20000)
    /\ feedback.rating_task_success = Number(4)
    /\ feedback.rating_clarity = Number(3)

\* C17: for every judge score s on the grid of hundredths the value reported
\* as "laj" and used in the delta is s*4+1 exactly, with no rounding.
C17_RescaleExact ==
    comparison.compared =>
       \A d \in CmpDims : comparison[d].laj = ScoreOf(d) * 4 + Unit

-----------------------------------------------------------------------------
(* Claims about the first turn *)

SeedTurn == ConversationTurn(1, "user", persona.seed_utterance, None)

C19_Step ==
    /\ (pc = "generate" /\ turn_number = 0)
          => /\ transcript' = <<SeedTurn>>
             /\ conversation_history'
                   = <<HistoryEntry("user", persona.seed_utterance)>>
             /\ pc' = "send"
    /\ Len(transcript') >= 1 => transcript'[1] = SeedTurn
    /\ termination'.reason = "error" => termination'.turn_number >= 2
    /\ conv_result'.returned
          => /\ Len(conv_result'.transcript) >= 1
             /\ conv_result'.transcript[1] = SeedTurn

\* C19: at turn 1 generate_response returns persona.seed_utterance verbatim
\* without calling the backend: the first step of every conversation records
\* a user turn numbered 1 carrying the seed utterance, that turn stays the
\* first entry of the transcript, and no conversation ends with reason error
\* at turn 1.
C19_SeedUtteranceFirst == [][C19_Step]_vars

\* a conversation the simulator's backend failed at the earliest turn it is
\* called, turn 2, with the seed utterance recorded first
C19_Witness ==
    /\ conv_result.returned
    /\ termination.reason = "error"
    /\ termination.turn_number = 2
    /\ Len(transcript) = 2
    /\ transcript[1] = SeedTurn

-----------------------------------------------------------------------------
(* The live chat surface: SupportAgent.chat, /api/chat, /api/chat-stream *)

MaxRequests == 2

MaxTokens == 2

\* the fixed apology (typographic apostrophes and dash written in ASCII)
error_reply ==
    "There's a problem - the chat service isn't working right now. Please try again later."

\* text.split(" ")
RECURSIVE SplitSpace(_)
SplitSpace(text) ==
    LET spaces == { i \in 1..Len(text) : CharAt(text, i) = " " }
    IN IF spaces = {} THEN <<text>>
       ELSE LET i == CHOOSE j \in spaces : \A k \in spaces : j <= k
            IN <<SubSeq(text, 1, i - 1)>>
                 \o SplitSpace(SubSeq(text, i + 1, Len(text)))

\* the loop of _chunk_text_for_stream over words[k..], with the words
\* buffered so far, their count, and the chunks already yielded
RECURSIVE ChunkLoop(_, _, _, _, _)
ChunkLoop(words, k, buf, count, out) ==
    IF k > Len(words)
    THEN IF Len(buf) > 0 THEN Append(out, JoinSpace(buf)) ELSE out
    ELSE LET word == words[k]
         IN IF count + Len(word) + (IF Len(buf) > 0 THEN 1 ELSE 0) > 40
            THEN ChunkLoop(words, k + 1, <<word>>, Len(word),
                           Append(out, JoinSpace(buf) \o " "))
            ELSE ChunkLoop(words, k + 1, Append(buf, word),
                           count + Len(word) + (IF count > 0 THEN 1 ELSE 0),
                           out)

\* _chunk_text_for_stream(text)
ChunkTextForStream(text) == ChunkLoop(SplitSpace(text), 1, << >>, 0, << >>)

\* the chunks of the apology
ApologyChunks == ChunkTextForStream(error_reply)

\* the session id of the requests
ChatSessionId == "s1"

\* messages of the user
ChatMessages == { "What plans do you have?" }

\* what the LLM call of _llm_reply can do: return content, return no content,
\* or raise
LLMReplies == { "We have plans from £8 per month." }

LLMContent(text) == [kind |-> "content", text |-> text]

LLMEmpty == [kind |-> "empty"]

LLMRaises == [kind |-> "raises"]

LLMOutcomes == { LLMContent(text) : text \in LLMReplies } \cup {LLMEmpty, LLMRaises}

\* tokens of a streamed completion
StreamTokens == { "Sure,", " one moment." }

\* SupportAgent._llm_reply: the content, or None
LLMReply(client, outcome) ==
    IF client = None THEN None
    ELSE IF outcome.kind = "content" THEN outcome.text
         ELSE None

\* SupportAgent._build_reply: the reply text
BuildReply(client, outcome) ==
    IF client = None THEN error_reply
    ELSE IF LLMReply(client, outcome) = None THEN error_reply
         ELSE LLMReply(client, outcome)

\* the dict SupportAgent.chat returns (the keys the claims read)
AgentChatResult(client, outcome) ==
    [reply |-> BuildReply(client, outcome), session_id |-> ChatSessionId]

\* the payload of src/api/chat.py when no client is configured
ErrorPayload ==
    [reply |-> error_reply, session_id |-> ChatSessionId, engine |-> "error"]

\* the engine flag of a payload, None when the key is absent
EngineOf(payload) ==
    IF "engine" \in DOMAIN payload THEN payload.engine ELSE None

HistoryItem(role, text) == [role |-> role, text |-> text]

ChatResponse(endpoint, payload) ==
    [sent |-> TRUE, endpoint |-> endpoint, payload |-> payload]

\* an event of the stream
SSE(event, data) == [event |-> event, data |-> data]

\* the init payload of chat_stream
InitPayload(client) ==
    [session_id |-> ChatSessionId,
     engine |-> IF client # None THEN "openai" ELSE "error"]

\* variant: full_reply keeps the first token only
FullReply_FirstToken(events) ==
    LET tokens == { k \in 1..Len(events) : events[k].event = "token" }
    IN IF tokens = {} THEN ""
       ELSE events[CHOOSE k \in tokens : \A j \in tokens : k <= j].data

\* the tokens yielded so far, concatenated: full_reply
RECURSIVE FullReply(_)
FullReply(events) ==
    IF Len(events) = 0 THEN ""
    ELSE IF events[1].event = "token"
         THEN events[1].data \o FullReply(Tail(events))
         ELSE FullReply(Tail(events))

TokenEvents(chunks) == [k \in 1..Len(chunks) |-> SSE("token", chunks[k])]

RequestsLeft == Len(sessions) < 2 * MaxRequests

\* POST /api/chat of server/app/main.py: agent.chat and its result as payload;
\* the handler runs in the thread pool, also while a stream is suspended at a
\* yield
ApiChat(message, outcome) ==
    /\ RequestsLeft
    /\ LET result == AgentChatResult(llm_client, outcome)
       IN  /\ sessions' = sessions \o <<HistoryItem("user", message),
                                        HistoryItem("assistant", result.reply)>>
           /\ chat_response' = ChatResponse("/api/chat", result)
    /\ UNCHANGED <<max_turns, backend_replies, judge_vars, heur_vars, store_vars, cmp_vars,
                   conv_vars, runner_vars, llm_client, stream_events, chat_pc>>

\* POST / of src/api/chat.py, the serverless mirror of /api/chat
FunctionChat(message, outcome) ==
    /\ RequestsLeft
    /\ LET result == IF llm_client = None THEN ErrorPayload
                     ELSE AgentChatResult(llm_client, outcome)
       IN  /\ sessions' = sessions \o <<HistoryItem("user", message),
                                        HistoryItem("assistant", result.reply)>>
           /\ chat_response' = ChatResponse("api/chat.py", result)
    /\ UNCHANGED <<max_turns, backend_replies, judge_vars, heur_vars, store_vars, cmp_vars,
                   conv_vars, runner_vars, llm_client, stream_events, chat_pc>>

\* event_gen up to its first yield: the user message is recorded and the init
\* event is sent
StreamInit(message) ==
    /\ chat_pc = "idle"
    /\ RequestsLeft
    /\ sessions' = Append(sessions, HistoryItem("user", message))
    /\ stream_events' = <<SSE("init", InitPayload(llm_client))>>
    /\ chat_pc' = "streaming"
    /\ UNCHANGED <<max_turns, backend_replies, judge_vars, heur_vars, store_vars, cmp_vars,
                   conv_vars, runner_vars, llm_client, chat_response>>

\* one chunk of the completion stream that carries a token
StreamToken(token) ==
    /\ chat_pc = "streaming"
    /\ llm_client # None
    /\ Len(stream_events) <= MaxTokens
    /\ stream_events' = Append(stream_events, SSE("token", token))
    /\ UNCHANGED <<max_turns, backend_replies, judge_vars, heur_vars, store_vars, cmp_vars,
                   conv_vars, runner_vars, llm_client, sessions, chat_response,
                   chat_pc>>

\* variant: the failure ends the token phase without the apology
StreamFails_NoApology ==
    /\ chat_pc = "streaming"
    /\ llm_client # None
    /\ chat_pc' = "closing"
    /\ UNCHANGED <<max_turns, backend_replies, judge_vars, heur_vars, store_vars, cmp_vars,
                   conv_vars, runner_vars, llm_client, sessions, chat_response,
                   stream_events>>

\* the create call or the iteration of the stream raises: the apology is
\* streamed after whatever was sent
StreamFails ==
    /\ chat_pc = "streaming"
    /\ llm_client # None
    /\ stream_events' = stream_events \o TokenEvents(ApologyChunks)
    /\ chat_pc' = "closing"
    /\ UNCHANGED <<max_turns, backend_replies, judge_vars, heur_vars, store_vars, cmp_vars,
                   conv_vars, runner_vars, llm_client, sessions, chat_response>>

\* no client is configured: the apology is streamed
StreamNoClient ==
    /\ chat_pc = "streaming"
    /\ llm_client = None
    /\ stream_events' = stream_events \o TokenEvents(ApologyChunks)
    /\ chat_pc' = "closing"
    /\ UNCHANGED <<max_turns, backend_replies, judge_vars, heur_vars, store_vars, cmp_vars,
                   conv_vars, runner_vars, llm_client, sessions, chat_response>>

\* the stream is exhausted, or the apology was sent: the reply is recorded
\* and the done event is sent
StreamDone ==
    /\ \/ chat_pc = "closing"
       \/ chat_pc = "streaming" /\ llm_client # None
    /\ sessions' = Append(sessions,
                          HistoryItem("assistant", FullReply(stream_events)))
    /\ stream_events' =
         Append(stream_events,
                SSE("done", [reply |-> FullReply(stream_events)]))
    /\ chat_pc' = "idle"
    /\ UNCHANGED <<max_turns, backend_replies, judge_vars, heur_vars, store_vars, cmp_vars,
                   conv_vars, runner_vars, llm_client, chat_response>>

\* the client stops consuming: the suspended generator is closed at its yield
\* (GeneratorExit / CancelledError pass the except Exception clauses), nothing
\* after the yield runs
StreamAbandoned ==
    /\ chat_pc \in {"streaming", "closing"}
    /\ chat_pc' = "idle"
    /\ UNCHANGED <<max_turns, backend_replies, judge_vars, heur_vars, store_vars, cmp_vars,
                   conv_vars, runner_vars, llm_client, sessions, chat_response,
                   stream_events>>

InitChat ==
    /\ max_turns = 1
    /\ backend_replies = {}
    /\ persona = NoPersona
    /\ scenario = None
    /\ seed = 0
    /\ transcript = << >>
    /\ conversation_history = << >>
    /\ latencies = << >>
    /\ turn_number = 0
    /\ termination = NoTermination
    /\ st_result = Continue
    /\ conv_result = NoResult
    /\ pc = "idle"
    /\ RunnerIdle
    /\ JudgeIdle
    /\ HeurIdle
    /\ StoreIdle
    /\ CmpIdle
    /\ llm_client \in {None, "openai"}
    /\ sessions = << >>
    /\ chat_response = NoChatResponse
    /\ stream_events = << >>
    /\ chat_pc = "idle"

NextChat ==
    \/ \E message \in ChatMessages, outcome \in LLMOutcomes :
          ApiChat(message, outcome)
    \/ \E message \in ChatMessages, outcome \in LLMOutcomes :
          FunctionChat(message, outcome)
    \/ \E message \in ChatMessages : StreamInit(message)
    \/ \E token \in StreamTokens : StreamToken(token)
    \/ StreamFails
    \/ StreamNoClient
    \/ StreamDone
    \/ StreamAbandoned

SpecChat == InitChat /\ [][NextChat]_vars

-----------------------------------------------------------------------------
(* Claims about the live chat surface *)

\* the stream has ended and its done event carries reply
StreamReplied(reply) ==
    /\ Len(stream_events) >= 2
    /\ stream_events[Len(stream_events)].event = "done"
    /\ stream_events[Len(stream_events)].data.reply = reply

\* C20: whenever the reply delivered on /api/chat or /api/chat-stream is the
\* fixed apology, the response payload (the init event of a stream) carries
\* engine = "error", never "openai".
C20_ApologyFlaggedError ==
    /\ (chat_response.sent /\ chat_response.payload.reply = error_reply)
          => EngineOf(chat_response.payload) = "error"
    /\ StreamReplied(error_reply)
          => EngineOf(stream_events[1].data) = "error"

\* the part of C20 the code does provide: with no client configured the
\* stream and the serverless endpoint answer the apology flagged "error"
C20_NoClientFlagged ==
    llm_client = None =>
       /\ (chat_response.sent /\ chat_response.endpoint = "api/chat.py")
             => /\ chat_response.payload.reply = error_reply
                /\ EngineOf(chat_response.payload) = "error"
       /\ Len(stream_events) >= 1
             => EngineOf(stream_events[1].data) = "error"
       /\ \A reply \in LLMReplies \cup {""} : ~StreamReplied(reply)

\* a stream that was announced with engine "openai" and delivered the apology
C20_StreamApologyAsOpenai ==
    /\ StreamReplied(error_reply)
    /\ EngineOf(stream_events[1].data) = "openai"

\* an apology answered on /api/chat with no engine flag at all
C20_ApologyUnflagged ==
    /\ chat_response.sent
    /\ chat_response.payload.reply = error_reply
    /\ EngineOf(chat_response.payload) = None

-----------------------------------------------------------------------------
(* Claims about the event stream *)

\* the events a step appends to the stream
AddedEvents == SubSeq(stream_events', Len(stream_events) + 1, Len(stream_events'))

LastEvent(events) == events[Len(events)]

C21_Step ==
    /\ (chat_pc = "streaming" /\ chat_pc' = "closing")
          => /\ Len(stream_events') > Len(stream_events)
             /\ SubSeq(stream_events', 1, Len(stream_events)) = stream_events
             /\ \A k \in 1..Len(AddedEvents) : AddedEvents[k].event = "token"
             /\ FullReply(AddedEvents) = error_reply
    /\ chat_pc = "closing" => ENABLED StreamDone
    /\ (chat_pc = "closing" /\ stream_events' # stream_events)
          => /\ Len(AddedEvents) = 1
             /\ LastEvent(stream_events').event = "done"
             /\ chat_pc' = "idle"

\* C21: when the LLM stream raises after zero or more tokens were forwarded,
\* the apology is emitted as one or more token events after them on the same
\* stream, and the only event the server sends after that is done.
C21_ApologyThenDone == [][C21_Step]_vars

\* a finished stream: an LLM token, then the apology chunks, then done
C21_Witness ==
    /\ llm_client # None
    /\ Len(stream_events) = 3 + Len(ApologyChunks)
    /\ stream_events[2] = SSE("token", "Sure,")
    /\ \A k \in 1..Len(ApologyChunks) :
          stream_events[2 + k] = SSE("token", ApologyChunks[k])
    /\ LastEvent(stream_events).event = "done"
    /\ Len(ApologyChunks) = 3


\* the data of the token events of a stream, concatenated in order
RECURSIVE TokenData(_, _)
TokenData(events, k) ==
    IF k > Len(events) THEN ""
    ELSE (IF events[k].event = "token" THEN events[k].data ELSE "")
            \o TokenData(events, k + 1)

Completed(events) == Len(events) >= 1 /\ LastEvent(events).event = "done"

C28_Step ==
    /\ Len(stream_events') >= 1
          => /\ stream_events'[1].event = "init"
             /\ \A k \in 2..Len(stream_events') :
                   \/ stream_events'[k].event = "token"
                   \/ /\ stream_events'[k].event = "done"
                      /\ k = Len(stream_events')
    /\ Completed(stream_events')
          => LastEvent(stream_events').data.reply = TokenData(stream_events', 1)
    /\ (Completed(stream_events') /\ stream_events' # stream_events)
          => sessions' = Append(sessions,
                                HistoryItem("assistant",
                                            TokenData(stream_events', 1)))

-----------------------------------------------------------------------------
(* Claims about the session history *)

RoleAt(k) == IF k % 2 = 1 THEN "user" ELSE "assistant"

\* C27: the history of a session strictly alternates user, assistant entries
\* starting with user, whatever the interleaving of /api/chat and
\* /api/chat-stream requests and also when a stream is abandoned by its
\* client; once no request is in flight no user entry lacks its assistant
\* entry.
C27_HistoryAlternates ==
    /\ \A k \in 1..Len(sessions) : sessions[k].role = RoleAt(k)
    /\ chat_pc = "idle" => Len(sessions) % 2 = 0

\* two user entries next to each other: a request arrived while a stream of
\* the session was suspended
C27_AdjacentUsers ==
    \E k \in 1..(Len(sessions) - 1) :
       sessions[k].role = "user" /\ sessions[k + 1].role = "user"

\* an abandoned stream: no request is in flight and the last entry is the
\* user message of a stream that sent no done
C27_UserLeftAlone ==
    /\ chat_pc = "idle"
    /\ Len(sessions) = 1
    /\ sessions[1].role = "user"
    /\ Len(stream_events) >= 1
    /\ ~Completed(stream_events)

-----------------------------------------------------------------------------
(* Claims about the breakdowns of the summary *)

\* the runs of the experiment that carry value under field
RunsWith(field, value) ==
    { i \in 1..Len(conversations) : conversations[i][field] = value }

\* breakdown maps each key to the mean of overall_weighted over the runs that
\* carry the key under field
BreakdownIsMean(breakdown, field) ==
    /\ DOMAIN breakdown
          = { conversations[i][field] : i \in 1..Len(conversations) }
    /\ \A k \in DOMAIN breakdown :
          /\ breakdown[k].den = Cardinality(RunsWith(field, k))
          /\ breakdown[k].num
                = SumOver([i \in 1..Len(conversations) |->
                             conversations[i].llm_evaluation.overall_weighted],
                          RunsWith(field, k))

\* C22: the summary of a batch holds breakdowns keyed by persona id, by
\* scenario id and by variant, each mapping a key to the mean of
\* overall_weighted over exactly the recorded runs that carry the key.
C22_BreakdownsByKey ==
    (r_pc = "done" /\ conversations # << >>)
       => /\ BreakdownIsMean(summary.scores_by_persona, "persona_id")
          /\ BreakdownIsMean(summary.scores_by_scenario, "scenario_id")
          /\ "scores_by_variant" \in DOMAIN summary
          /\ BreakdownIsMean(summary.scores_by_variant, "variant")

\* C22, amended: the summary of a non-empty batch holds two breakdowns, by
\* persona id and by scenario id, each mapping a key to the mean of
\* overall_weighted over exactly the recorded runs that carry the key; it
\* holds none by variant, and for an empty batch both are None.
C22_PersonaAndScenario ==
    /\ (r_pc = "done" /\ conversations # << >>)
          => /\ BreakdownIsMean(summary.scores_by_persona, "persona_id")
             /\ BreakdownIsMean(summary.scores_by_scenario, "scenario_id")
             /\ "scores_by_variant" \notin DOMAIN summary
    /\ (r_pc = "done" /\ conversations = << >>)
          => /\ summary.scores_by_persona = None
             /\ summary.scores_by_scenario = None

\* a summarised batch of two runs of different personas with different scores
C22_TwoPersonas ==
    /\ r_pc = "done"
    /\ Len(conversations) = 2
    /\ conversations[1].persona_id # conversations[2].persona_id
    /\ conversations[1].llm_evaluation.overall_weighted
          # conversations[2].llm_evaluation.overall_weighted
    /\ Cardinality(DOMAIN summary.scores_by_persona) = 2
    /\ "scores_by_variant" \notin DOMAIN summary

-----------------------------------------------------------------------------
(* Claims about the order of events of run_experiment *)

\* the positions of run_experiment that follow one another
RunnerOrder ==
    { <<"loop", "conversation">>, <<"conversation", "heuristics">>,
      <<"conversation", "loop">>, <<"heuristics", "loop">>,
      <<"loop", "done">> }

\* the pairs finished so far: recorded or failed
FinishedPairs == LinesOf("completed") \cup LinesOf("failed")

C23_Step ==
    /\ r_pc' # r_pc => <<r_pc, r_pc'>> \in RunnerOrder
    \* a pair starts only when every earlier pair is finished, in
    \* persona-major order
    /\ current' # current
          => /\ r_pc = "loop"
             /\ current' = current + 1
             /\ Cardinality(FinishedPairs) = current
             /\ persona' = personas[(current \div Len(scenarios)) + 1]
             /\ scenario' = scenarios[(current % Len(scenarios)) + 1]
    \* the conversation runs only inside its pair
    /\ conv_vars' # conv_vars => r_pc' = "conversation"
    \* the judge runs after run_conversation has returned
    /\ (llm_scores' # llm_scores /\ llm_scores' # NoScores)
          => /\ r_pc = "conversation"
             /\ pc = "returned"
             /\ r_pc' = "heuristics"
    \* the heuristics and the record come after the judge
    /\ conversations' # conversations
          => /\ r_pc = "heuristics"
             /\ llm_scores.evaluated
             /\ Len(conversations') = Len(conversations) + 1
             /\ conversations'[Len(conversations')].run_number = current
             /\ conversations'[Len(conversations')].llm_evaluation = llm_scores
             /\ r_pc' = "loop"
    \* a pair is finished by its own step only
    /\ Cardinality(FinishedPairs') # Cardinality(FinishedPairs)
          => /\ r_pc \in {"conversation", "heuristics"}
             /\ r_pc' = "loop"
             /\ Cardinality(FinishedPairs') = current
    \* the summary is computed once, after the last pair
    /\ summary' # summary
          => /\ summary = NoSummary
             /\ r_pc' = "done"
             /\ Cardinality(FinishedPairs) = Len(personas) * Len(scenarios)
             /\ Cardinality(FinishedPairs) = current
    /\ r_pc = "done" => vars' = vars
    /\ (r_pc = "loop" /\ ~PairsLeft) => ENABLED FinishExperiment

\* C23: the events of run_experiment are totally ordered: pairs in
\* persona-major order, within a pair the conversation, then the judge, then
\* the heuristics and the record, each pair recorded or failed before the
\* next one starts, and the summary computed once, after the last pair.
C23_TotalOrder == [][C23_Step]_vars

\* two persona ids and two scenario ids: the second pair started is the
\* first persona with the second scenario, after the first pair was recorded
C23_Witness ==
    /\ Len(personas) = 2
    /\ Len(scenarios) = 2
    /\ current = 2
    /\ r_pc = "heuristics"
    /\ persona = personas[1]
    /\ scenario = scenarios[2]
    /\ Len(conversations) = 1

-----------------------------------------------------------------------------
(* Claims about the average latency of a conversation *)

ErrorPlaceholders == { ErrorPlaceholder(e) : e \in TransportErrors }

\* the assistant turns of a transcript whose send_message succeeded
SucceededTurns(tr) ==
    SelectSeq(tr, LAMBDA t : /\ t.speaker = "assistant"
                             /\ t.message \notin ErrorPlaceholders)

\* the assistant turns recorded with the error placeholder
PlaceholderTurns(tr) ==
    SelectSeq(tr, LAMBDA t : /\ t.speaker = "assistant"
                             /\ t.message \in ErrorPlaceholders)

RECURSIVE LatencyOfTurns(_)
LatencyOfTurns(ts) ==
    IF Len(ts) = 0 THEN 0
    ELSE ts[1].metadata.latency_ms + LatencyOfTurns(Tail(ts))

\* C24: the average latency returned by run_conversation is the sum of the
\* latencies of the assistant turns whose send_message succeeded divided by
\* their number, and 0 when no turn succeeded; placeholder turns add nothing
\* to the sum and nothing to the count.
C24_AverageOverSucceeded ==
    pc = "returned"
       => LET ok  == SucceededTurns(conv_result.transcript)
              avg == conv_result.average_latency_ms
          IN  IF Len(ok) = 0
              THEN avg.num = 0
              ELSE avg.num * Len(ok) = LatencyOfTurns(ok) * avg.den

\* a returned conversation with two succeeded turns and a placeholder turn
C24_Witness ==
    /\ pc = "returned"
    /\ Len(SucceededTurns(conv_result.transcript)) >= 2
    /\ Len(PlaceholderTurns(conv_result.transcript)) >= 1

\* a returned conversation in which no send_message succeeded
C24_NoneSucceeded ==
    /\ pc = "returned"
    /\ Len(SucceededTurns(conv_result.transcript)) = 0
    /\ Len(PlaceholderTurns(conv_result.transcript)) >= 1

-----------------------------------------------------------------------------
(* Claims about the termination of a conversation *)

\* run_conversation is never stuck: at each position short of the return a
\* step is possible (at the check: should_terminate yields a verdict, which
\* is all CheckTermination waits for)
NeverStuck ==
    \/ /\ pc = "generate"
       /\ ENABLED (\/ \E reply \in backend_replies : GenerateUser(reply)
                   \/ SimulatorRaises)
    \/ /\ pc = "send"
       /\ ENABLED (\/ \E reply \in AssistantReplies, latency \in Latencies :
                         SendOk(reply, latency)
                   \/ \E e \in TransportErrors : SendRaises(e))
    \/ /\ pc = "check"
       /\ ShouldTerminate(max_turns, persona, conversation_history,
                          turn_number).should_end \in BOOLEAN
    \/ pc = "returned"

\* C25: provided every call returns or raises, run_conversation returns; the
\* loop runs at most max_turns iterations and the returned total_turns is at
\* most max_turns, whatever the persona's patience, the messages and the
\* transport errors.
C25_ReturnsWithinCap ==
    /\ []NeverStuck
    /\ [][pc' # pc]_vars
    /\ <>(pc = "returned")
    /\ [](turn_number <= max_turns)
    /\ [](pc = "returned" => conv_result.total_turns <= max_turns)

\* a conversation of a persona more patient than the cap, with a transport
\* error on the way, returned at the cap
C25_Witness ==
    /\ pc = "returned"
    /\ persona.max_patience_turns > max_turns
    /\ max_turns >= 2
    /\ conv_result.total_turns = max_turns
    /\ Len(PlaceholderTurns(conv_result.transcript)) >= 1

-----------------------------------------------------------------------------
(* Claims about the two records of a conversation *)

SpeakerAt(i) == IF i % 2 = 1 THEN "user" ELSE "assistant"

\* the transcript and the history hold the same turns, alternating from the
\* user, the k-th pair numbered k
InLockstep(tr, history) ==
    /\ Len(tr) = Len(history)
    /\ \A i \in 1..Len(tr) :
          /\ tr[i].speaker = history[i].role
          /\ tr[i].message = history[i].content
          /\ tr[i].speaker = SpeakerAt(i)
          /\ tr[i].turn_number = (i + 1) \div 2

\* C26: at every termination check and on return the transcript and the
\* conversation history are in lockstep: same length, same speakers and
\* texts, alternating user, assistant from the user, the k-th pair carrying
\* turn_number k.
C26_Lockstep ==
    /\ pc = "check" => /\ InLockstep(transcript, conversation_history)
                       /\ Len(transcript) = 2 * turn_number
    /\ pc = "returned" => /\ conv_result.transcript = transcript
                          /\ InLockstep(transcript, conversation_history)

\* a termination check after three pairs, one of them a placeholder
C26_Witness ==
    /\ pc = "check"
    /\ Len(transcript) = 6
    /\ Len(PlaceholderTurns(transcript)) >= 1
    /\ Len(SucceededTurns(transcript)) >= 1

\* a return through the outer except, after two recorded pairs
C26_ReturnedOnError ==
    /\ pc = "returned"
    /\ termination.reason = "error"
    /\ Len(conv_result.transcript) = 4

-----------------------------------------------------------------------------
(* Claims about the range of the overall score, checked under SpecRubric *)

\* the weighted sum _parse_scores computes from the completion received
ComputedOverall ==
    ParseScores(rubric, judge_response.text).overall_weighted

AllZero(scores) ==
    /\ DimScores(scores) = <<0, 0, 0, 0>>
    /\ scores.overall_weighted = 0

\* C29: every EvaluationScores evaluate returns has overall_weighted within
\* [0, 1], whatever the rubric: a weighted sum above 1 is rejected by the
\* bounds of EvaluationScores and evaluate returns the all-zero error scores.
C29_OverallInRange ==
    llm_scores.evaluated
       => /\ llm_scores.overall_weighted \in 0..Unit
          /\ judge_response.kind = "completion"
                => IF ComputedOverall > Unit
                   THEN /\ AllZero(llm_scores)
                        /\ llm_scores.rationale =
                              "Error during evaluation: " \o ValidationError
                   ELSE /\ llm_scores.overall_weighted = ComputedOverall
                        /\ llm_scores.rationale = judge_response.text

\* the example completion under the rubric whose weights sum to 1.5: the
\* weighted sum would be 1.13, the all-zero scores are returned
C29_Witness ==
    /\ llm_scores.evaluated
    /\ rubric = heavy_rubric
    /\ judge_response = Completion(ExampleCompletion)
    /\ ComputedOverall = 11300
    /\ AllZero(llm_scores)

\* the example completion under the rubric that omits two dimensions: their
\* default weights apply, 0.8*0.6 + 0.6*0.4 + 1.0*0.2 + 0.5*0.1 = 0.97
C29_OmittedDimension ==
    /\ llm_scores.evaluated
    /\ rubric = partial_rubric
    /\ judge_response = Completion(ExampleCompletion)
    /\ llm_scores.overall_weighted = 9700

-----------------------------------------------------------------------------
(* The messages table of the store and the human-data pipelines            *)
(* (src/api/client.py, evaluate_human_transcripts.py,                       *)
(*  export_real_users.py, human_laj_combined_analysis.py)                   *)

MaxStored == 3          \* largest number of rows in the messages table

\* str.startswith
StartsWith(prefix, s) ==
    /\ Len(s) >= Len(prefix)
    /\ SubSeq(s, 1, Len(prefix)) = prefix

\* a row of the messages table; origin records who stored it and is read by
\* no pipeline
MessageRow(session_id, participant_id, group, role, content, origin) ==
    [session_id |-> session_id, participant_id |-> participant_id,
     participant_group |-> group, role |-> role, content |-> content,
     origin |-> origin]

\* rows the web client stores for participants of the study
RealRows ==
    { MessageRow("b7e1f0c2", "P-017", "A", "user", "My bill is wrong", "real"),
      MessageRow("simone-laptop", None, "B", "user", "Hello", "real"),
      MessageRow("4c9a", "Lena", "B", "assistant", "Happy to help.", "real") }

\* the calls of run_conversation whose messages reach the store
StoreSeeds == { BaseSeed + 1 }

StorePersonas == { PersonaOf(1, "What plans do you have?") }

\* the two _store_message calls of send_message, as run_conversation calls
\* it; a failed store is only logged
SimSendMessage(p, sc, sd, v, user_stored, assistant_stored) ==
    LET user_row ==
            MessageRow(SessionId(p, sc, sd), ParticipantId(sd), v, "user",
                       p.seed_utterance, "simulated")
        assistant_row ==
            MessageRow(SessionId(p, sc, sd), ParticipantId(sd), v,
                       "assistant", "Great, you're all set. Anything else?",
                       "simulated")
        rows == (IF user_stored THEN <<user_row>> ELSE << >>)
                   \o (IF assistant_stored THEN <<assistant_row>> ELSE << >>)
    IN  /\ Len(messages_table) + Len(rows) <= MaxStored
        /\ messages_table' = messages_table \o rows
        /\ UNCHANGED <<max_turns, backend_replies, conv_vars, runner_vars,
                       judge_vars, heur_vars, cmp_vars, chat_vars,
                       human_messages>>

\* POST /api/messages from the web client
InsertMessage(row) ==
    /\ Len(messages_table) < MaxStored
    /\ messages_table' = Append(messages_table, row)
    /\ UNCHANGED <<max_turns, backend_replies, conv_vars, runner_vars,
                   judge_vars, heur_vars, cmp_vars, chat_vars,
                   human_messages>>

\* not msg.get('session_id', '').startswith('sim_')
NotSimSession(msg) == ~StartsWith("sim_", msg.session_id)

\* m.get('participant_id') and
\* not str(m.get('participant_id')).lower().startswith('llm')
HumanParticipant(m) ==
    /\ Truthy(m.participant_id)
    /\ ~StartsWith("llm", LowerOf(m.participant_id))

\* HumanTranscriptEvaluator.fetch_messages
FetchMessages(session_id, participant_group) ==
    LET real_messages == SelectSeq(messages_table, NotSimSession)
        of_session ==
            IF Truthy(session_id)
            THEN SelectSeq(real_messages,
                           LAMBDA msg : msg.session_id = session_id)
            ELSE real_messages
        of_group ==
            IF Truthy(participant_group)
            THEN SelectSeq(of_session,
                           LAMBDA msg : msg.participant_group = participant_group)
            ELSE of_session
    IN  /\ human_messages' = [pipeline |-> "fetch_messages", rows |-> of_group]
        /\ UNCHANGED <<max_turns, backend_replies, conv_vars, runner_vars,
                       judge_vars, heur_vars, cmp_vars, chat_vars,
                       messages_table>>

\* export_real_conversations: the rows written to the CSV file
ExportRealConversations(limit) ==
    LET messages ==
            IF limit = 0 THEN messages_table
            ELSE SubSeq(messages_table, 1, Min(limit, Len(messages_table)))
        real_messages == SelectSeq(messages, NotSimSession)
    IN  /\ human_messages' =
              [pipeline |-> "export_real_conversations", rows |-> real_messages]
        /\ UNCHANGED <<max_turns, backend_replies, conv_vars, runner_vars,
                       judge_vars, heur_vars, cmp_vars, chat_vars,
                       messages_table>>

\* HumanLAJAnalyzer.fetch_all_messages
FetchAllMessages ==
    /\ human_messages' =
          [pipeline |-> "fetch_all_messages",
           rows |-> SelectSeq(messages_table, HumanParticipant)]
    /\ UNCHANGED <<max_turns, backend_replies, conv_vars, runner_vars,
                   judge_vars, heur_vars, cmp_vars, chat_vars, messages_table>>

StoredSessionIds ==
    { messages_table[i].session_id : i \in 1..Len(messages_table) }

InitStore ==
    /\ max_turns = 1
    /\ backend_replies = {}
    /\ persona = NoPersona
    /\ scenario = None
    /\ seed = 0
    /\ transcript = << >>
    /\ conversation_history = << >>
    /\ latencies = << >>
    /\ turn_number = 0
    /\ termination = NoTermination
    /\ st_result = Continue
    /\ conv_result = NoResult
    /\ pc = "idle"
    /\ RunnerIdle
    /\ JudgeIdle
    /\ ToolsIdle

NextStore ==
    \/ \E p \in StorePersonas, sd \in StoreSeeds, v \in Variants,
          user_stored \in BOOLEAN, assistant_stored \in BOOLEAN :
          SimSendMessage(p, ScenarioIds[1], sd, v, user_stored,
                         assistant_stored)
    \/ \E row \in RealRows : InsertMessage(row)
    \/ \E session_id \in StoredSessionIds \cup {None},
          participant_group \in Variants \cup {None} :
          FetchMessages(session_id, participant_group)
    \/ \E limit \in 0..MaxStored : ExportRealConversations(limit)
    \/ FetchAllMessages

SpecStore == InitStore /\ [][NextStore]_vars

-----------------------------------------------------------------------------
(* Claims about simulated messages in the store, checked under SpecStore *)

Simulated(rows) == SelectSeq(rows, LAMBDA m : m.origin = "simulated")

\* C30: every message a simulated conversation stores has a session_id
\* starting with "sim_" and a participant_id starting with "llm_test_", and
\* every human-data pipeline drops all of them, whatever else is stored.
C30_SimulatedNeverHuman ==
    /\ \A i \in 1..Len(messages_table) :
          messages_table[i].origin = "simulated"
             => /\ StartsWith("sim_", messages_table[i].session_id)
                /\ StartsWith("llm_test_", messages_table[i].participant_id)
    /\ Simulated(human_messages.rows) = << >>

\* fetch_all_messages has run on a table of simulated and real rows and kept
\* some
C30_Witness ==
    /\ human_messages.pipeline = "fetch_all_messages"
    /\ Len(Simulated(messages_table)) >= 1
    /\ Len(human_messages.rows) >= 1
    /\ Len(human_messages.rows) < Len(messages_table)

\* the same for fetch_messages
C30_FetchMessages ==
    /\ human_messages.pipeline = "fetch_messages"
    /\ Len(Simulated(messages_table)) >= 1
    /\ Len(human_messages.rows) >= 1

\* the same for export_real_conversations
C30_Export ==
    /\ human_messages.pipeline = "export_real_conversations"
    /\ Len(Simulated(messages_table)) >= 1
    /\ Len(human_messages.rows) >= 1

====
